          /\ \E o \in FunctionOutcomes(hw_workers[w].op) :
                /\ hw_workers' = [hw_workers EXCEPT ![w].at = 1,
                                                    ![w].returned = o.returned,
                                                    ![w].value = o.value,
                                                    ![w].signals = <<RunSignals(o.returned)[1]>>]
                /\ hw_queue' = Append(hw_queue,
                                      IF o.returned
                                      THEN Delivery("handle_worker_result", w, o.value)
                                      ELSE Delivery("handle_worker_error", w, ""))
---- MODULE Spec2Model ----
(***************************************************************************)
(* A model of ADB Insight (yaboypat1/adb-insight): the adb command         *)
(* runners, the device-list parser and readiness classification, the       *)
(* installed-apps TTL caches, the AppTab worker threads and the wireless   *)
(* pairing dialog.  Text is modelled as sequences of lines, a line as the  *)
(* sequence of its whitespace-separated words.                             *)
(***************************************************************************)
EXTENDS Integers, Sequences, FiniteSets, TLC

(***************************************************************************)
(* Bounds of the model.                                                    *)
(***************************************************************************)
MaxDevices == 2
MaxLines == 2
MaxTime == 7
Epoch == 100
MaxObjs == 3
MaxTasks == 2
MaxEvents == 3
MaxThreads == 2
MaxPairs == 2
MaxPkgLines == 3
MaxMemLines == 3
MaxWait == 31
MaxFires == 1
MaxEnumLines == 2
MaxHosts == 52
MaxWorkers == 3
MaxEntries == 2
MaxListeners == 2
IdleSeconds == 25

(***************************************************************************)
(* Program constants.                                                      *)
(***************************************************************************)
cache_timeout == 5
RetryTries == 3
AppCacheWindow == 30
CheckInterval == 2
\* the ceiling on concurrent probe threads of the LAN scan
ThreadCap == 50

VARIABLES
    \* the environment: the devices adb knows, whether the adb server answers, the clock
    devs, adb_up, now,
    \* the environment: the third-party package listing of the device, whether
    \* `adb shell` commands succeed
    pkgs, shell_up,
    \* ADBUtils.get_connected_devices as a function of the text it is given
    p_in, p_src, p_wf, p_out,
    \* ADBUtils.get_device_state
    device_cache, last_device_check, ds_ret, ds_miss,
    \* AppUtils._verify_device
    current_device, vd_ret, vd_prev,
    \* the operation that returned last, "none" once the environment has changed since
    fresh,
    \* one call of a command runner: which, whether adb_path is set, the
    \* outcomes of its subprocesses, what came back
    r_runner, r_path, r_outs, r_ret,
    \* ADBUtils: the cached app list and its time
    app_cache, last_app_refresh,
    \* AppUtils: the cached app list and its time, the readiness flag and its time
    _app_cache, _last_app_refresh, adb_ready, last_check,
    \* the last get_installed_apps call: its force_refresh, the list object it
    \* returned, the adb subprocesses it started; the number of list objects made
    ia_force, ia_ret, ia_spawned, next_oid,
    \* history: per class, the last call that queried the device successfully
    \* (q_adb, q_app); whether the last call was an unforced call inside the
    \* cache window of such a query, and the list object that query returned
    q_adb, q_app, ia_inwin, ia_expect,
    \* the system_apps argument of the last get_installed_apps call
    ia_system,
    \* AppTab: the tasks submitted to its executor, the slot calls queued for
    \* the UI thread, every widget mutation with the thread that made it,
    \* the items of the app list
    executor_q, ui_events, widget_log, app_list,
    \* WirelessHandlerWidget: its running workers, the stored result, the
    \* device list, whether the refresh button is enabled
    active_threads, _last_result, deviceListWidget, refreshButton,
    \* ADBUtils.get_installed_apps statement by statement, per thread: where
    \* the thread is, its local `now` and `apps`, what its cache check read;
    \* history: the refresh whose time is in last_app_refresh
    t_pc, t_now, t_apps, t_read, stamp_oid,
    \* WirelessDialog: the slot connected to pair_button.clicked, the button's
    \* text and enabled flag, connect_button's enabled flag, the texts of
    \* code_input and status_label, the last message box, whether the progress
    \* dialog of start_pairing is open
    pair_handler, pair_text, pair_enabled, connect_enabled, code_input, status_label,
    dlg_warning, progress_open,
    \* history: start_wireless_pairing has returned a code that was displayed;
    \* the calls of pair_wireless_device, the last one's adb path and subprocess
    \* outcome; whether the last complete_pairing submitted a code
    code_shown, pair_cmds, pair_path, pair_out, submitted,
    \* MainWindow: whether its PairingDialog is open and the code it shows, the
    \* last critical message box, the entries of devices_text; history: the
    \* steps of the pairing flow since pair_btn was clicked
    mw_dialog, mw_code, mw_box, devices_text, mw_trace,
    \* one package listing given to the three parsers of `pm list packages -f`:
    \* the listing, ADBUtils.get_installed_apps' system_apps, what each made of it
    pk_lines, pk_system, pk_adb, pk_app, pk_pkg,
    \* one `dumpsys meminfo` output given to the three get_memory_info parsers:
    \* the dump, what ADBUtils (HEAD and parent revision) and AppUtils made of it
    mem_lines, mem_head, mem_parent, mem_app,
    \* one construction of an ADBUtils: where adb can be found on this machine,
    \* the exception the constructor raised ("" when it returned), the adb_path
    \* field of the object
    rs_env, rs_raised, rs_path,
    \* one call of an AppUtils data operation: which, the adb_ready flag, whether
    \* `adb devices` shows a device, the outcomes of its adb commands; what the
    \* caller got
    du_op, du_in, du_ret,
    \* one adb subprocess of ADBUtils: the method that started it, the timeout
    \* it waits with, whether the process exits on its own, where the call is,
    \* the seconds it has waited
    sp_op, sp_timeout, sp_exits, sp_state, sp_elapsed,
    \* the periodic timers of the main window and its AppTab: the revision of
    \* the window that is open ("none" before), the timers that are active,
    \* whether closeEvent has run, how often each timer has fired, the timers
    \* that fired after closeEvent
    tm_rev, tm_active, tm_closed, tm_fired, tm_late,
    \* history of the direct get_device_state calls: the last call that computed
    \* a result from a listing (its time and result), whether the last call was
    \* made inside the cache window of such a call, and the result computed then
    ds_prior, ds_inwin, ds_expect,
    \* history of check_adb_status: the last call that verified the device (its
    \* time), whether the last call was made less than CheckInterval after it,
    \* the adb_ready stored when the last call began, what the last call
    \* returned, whether it ran _verify_device
    ck_prior, ck_inwin, ck_expect, ck_ret, ck_verified,
    \* one enumeration of a package listing by each of the three, with the
    \* outcome of the detail commands of every line: the listing, the outcomes,
    \* system_apps, and the records of ADBUtils.get_installed_apps, of
    \* AppUtils.get_installed_apps and of ADBUtils.get_installed_packages
    en_lines, en_outs, en_system, en_adb, en_app, en_pkg,
    \* one ADBUtils.get_app_analytics call: whether exactly one ready device was
    \* attached, the outcome of the adb command of every metric, what it returned
    an_ready, an_q, an_ret,
    \* the LAN scan of NetworkScanDialog: where it is ("idle", "scanning",
    \* "joining", "done"), the host addresses of the scanned subnets, how many
    \* of them have got their probe thread, the probe threads alive
    sc_state, sc_hosts, sc_spawned, sc_alive,
    \* WirelessHandlerWidget with its workers told apart: whether the widget is
    \* constructed; the workers created so far (operation, position of run, the
    \* slots connected to finished, the signals emitted, what the function did);
    \* active_threads as the set of their numbers; the queued signal deliveries
    \* of the UI thread; _last_result and the worker whose result it is; the
    \* enabled buttons; the worker whose _start_worker the UI thread is inside
    \* (0: none); what the last completion handler did; whether deviceListWidget
    \* holds a device (which is then the selected one)
    hw_built, hw_workers, hw_active, hw_queue, hw_last, hw_enabled, hw_ui, hw_report,
    hw_items,
    \* the results of ADBUtils.check_adb_status and EnhancedAppUtils._verify_device
    ag_status, ag_verify,
    \* DebugLogger: entry_queue (0 is the None of shutdown), entries, listeners,
    \* the holder of _lock and the position of the queue thread
    lg_queue, lg_entries, lg_listeners, lg_lock, lg_pc, lg_cur, lg_i, lg_next, lg_before, lg_shut

envVars == <<devs, adb_up, now, pkgs, shell_up>>
parseVars == <<p_in, p_src, p_wf, p_out>>
dsVars == <<device_cache, last_device_check, ds_ret, ds_miss>>
vdVars == <<current_device, vd_ret, vd_prev>>
runVars == <<r_runner, r_path, r_outs, r_ret>>
adbAppVars == <<app_cache, last_app_refresh>>
appAppVars == <<_app_cache, _last_app_refresh>>
readyVars == <<adb_ready, last_check>>
iaVars == <<ia_force, ia_ret, ia_spawned, next_oid, q_adb, q_app, ia_inwin, ia_expect,
           ia_system>>
appsVars == <<adbAppVars, appAppVars, readyVars, iaVars>>

tabVars == <<executor_q, ui_events, widget_log, app_list>>
whVars == <<active_threads, _last_result, deviceListWidget, refreshButton>>
guiVars == <<tabVars, whVars>>

raceVars == <<t_pc, t_now, t_apps, t_read, stamp_oid>>

dlgWidgets == <<pair_handler, pair_text, pair_enabled, connect_enabled, code_input,
                status_label, dlg_warning, progress_open>>
dlgHistory == <<code_shown, pair_cmds, pair_path, pair_out, submitted>>
dlgVars == <<dlgWidgets, dlgHistory>>

\* MainWindow's pairing flow
mwVars == <<mw_dialog, mw_code, mw_box, devices_text, mw_trace>>
\* the components that follow the wireless dialog in this module
\* the package-list parsers
pkVars == <<pk_lines, pk_system, pk_adb, pk_app, pk_pkg>>
\* the memory-info parsers
memVars == <<mem_lines, mem_head, mem_parent, mem_app>>
\* the adb resolver
rsVars == <<rs_env, rs_raised, rs_path>>
\* the data operations of AppUtils
duVars == <<du_op, du_in, du_ret>>
\* the subprocess calls of ADBUtils
spVars == <<sp_op, sp_timeout, sp_exits, sp_state, sp_elapsed>>
\* the refresh timers
tmVars == <<tm_rev, tm_active, tm_closed, tm_fired, tm_late>>
midVars == <<mwVars, pkVars, memVars, rsVars, duVars, spVars, tmVars>>
\* the components added after the refresh timers
enVars == <<en_lines, en_outs, en_system, en_adb, en_app, en_pkg>>
anVars == <<an_ready, an_q, an_ret>>
scVars == <<sc_state, sc_hosts, sc_spawned, sc_alive>>
hwVars == <<hw_built, hw_workers, hw_active, hw_queue, hw_last, hw_enabled, hw_ui, hw_report, hw_items>>
agVars == <<ag_status, ag_verify>>
lgVars == <<lg_queue, lg_entries, lg_listeners, lg_lock, lg_pc, lg_cur, lg_i, lg_next, lg_before, lg_shut>>
lateVars == <<enVars, anVars, scVars, hwVars, agVars, lgVars>>
moreVars == <<midVars, lateVars>>

dsHist == <<ds_prior, ds_inwin, ds_expect>>
ckHist == <<ck_prior, ck_inwin, ck_expect, ck_ret, ck_verified>>
stVars == <<dsHist, ckHist>>

vars == <<envVars, parseVars, dsVars, vdVars, runVars, appsVars, guiVars, raceVars,
          dlgVars, moreVars, stVars, fresh>>
coreVars == <<envVars, parseVars, dsVars, vdVars, runVars, appsVars, guiVars, raceVars,
              dlgVars, stVars>>
OtherLateEnum == <<anVars, scVars, hwVars, agVars, lgVars>>
NotLateEnum == <<coreVars, midVars, OtherLateEnum>>
OtherLateAn == <<enVars, scVars, hwVars, agVars, lgVars>>
NotLateAn == <<coreVars, midVars, OtherLateAn>>
OtherLateScan == <<enVars, anVars, hwVars, agVars, lgVars>>
NotLateScan == <<coreVars, midVars, OtherLateScan>>
OtherLateHandler == <<enVars, anVars, scVars, agVars, lgVars>>
NotLateHandler == <<coreVars, midVars, OtherLateHandler>>
OtherLateAgree == <<enVars, anVars, scVars, hwVars, lgVars>>
NotLateAgree == <<coreVars, midVars, OtherLateAgree>>
OtherLateLogger == <<enVars, anVars, scVars, hwVars, agVars>>
NotLateLogger == <<coreVars, midVars, OtherLateLogger>>
\* everything of the first components but the device-state cache
coreNotDs == <<envVars, parseVars, vdVars, runVars, appsVars, guiVars, raceVars, dlgVars, stVars>>

\* what the operations of one component leave alone
NotEnv == <<parseVars, dsVars, vdVars, runVars, appsVars, guiVars, raceVars, dlgVars, moreVars, stVars>>
NotParse == <<envVars, dsVars, vdVars, runVars, appsVars, guiVars, raceVars, dlgVars, moreVars, stVars>>
NotDs == <<envVars, parseVars, vdVars, runVars, appsVars, guiVars, raceVars, dlgVars, moreVars, ckHist>>
NotVd == <<envVars, parseVars, dsVars, runVars, appsVars, guiVars, raceVars, dlgVars, moreVars, stVars>>
NotRun == <<envVars, parseVars, dsVars, vdVars, appsVars, guiVars, raceVars, dlgVars, moreVars, stVars>>
\* ADBUtils.get_installed_apps goes through get_device_state
NotAdbAppsCall == <<envVars, parseVars, vdVars, runVars, appAppVars, readyVars, raceVars, dlgVars, moreVars, stVars>>
NotAdbApps == <<NotAdbAppsCall, guiVars>>
\* AppUtils.get_installed_apps goes through _verify_device
NotAppApps == <<envVars, parseVars, dsVars, runVars, adbAppVars, readyVars, guiVars, raceVars, dlgVars, moreVars, stVars>>
NotReady == <<envVars, parseVars, dsVars, runVars, adbAppVars, appAppVars, iaVars, guiVars, raceVars, dlgVars, moreVars, dsHist>>
\* what the steps of a thread inside ADBUtils.get_installed_apps leave alone,
\* the object's own fields apart
NotRace == <<envVars, parseVars, vdVars, runVars, appAppVars, readyVars, guiVars, dlgVars, moreVars, stVars>>
iaCallVars == <<ia_force, ia_ret, ia_spawned, q_adb, q_app, ia_inwin, ia_expect, ia_system>>
\* WirelessDialog owns its widgets only
NotDlg == <<envVars, parseVars, dsVars, vdVars, runVars, appsVars, guiVars, raceVars, moreVars, stVars>>
\* AppTab and WirelessHandlerWidget own no ADBUtils or AppUtils field
NotGui == <<envVars, parseVars, dsVars, vdVars, runVars, appsVars, raceVars, dlgVars, moreVars, stVars>>

ds_fresh == fresh = "get_device_state"
vd_fresh == fresh = "_verify_device"

(***************************************************************************)
(* Vocabulary of the adb output.                                           *)
(***************************************************************************)
DeviceIds == {"emulator-5554", "192.168.1.5:5555", "mydevice01"}
DeviceStates == {"device", "offline", "unauthorized", "no permissions"}
DetailWords == <<"product:sdk", "model:Pixel">>
HeaderLine == <<"List of devices attached">>
DaemonLine == <<"* daemon started successfully">>
BlankLine == <<>>

Range(s) == {s[i] : i \in 1..Len(s)}

\* `pat in word` for the words of the vocabulary
HasSub(word, pat) ==
    CASE pat = "device" -> word \in {"device", "mydevice01", "List of devices attached"}
      [] pat = "unauthorized" -> word = "unauthorized"
      [] pat = ":" -> word \in Range(DetailWords) \cup
                         {"192.168.1.5:5555", "Enter pairing code:",
                          "Successfully paired to 192.168.1.5:37275",
                          "Failed: Wrong password or connection was dropped."}
      [] pat = "Enter" -> word = "Enter pairing code:"
      [] pat = "pairing code" -> word = "Enter pairing code:"
      [] pat = "Successfully paired" -> word = "Successfully paired to 192.168.1.5:37275"
      [] pat = "/system/" -> word = "/system/app/Calendar/Calendar.apk"
      [] OTHER -> word = pat

LineHas(line, pat) == \E i \in 1..Len(line) : HasSub(line[i], pat)

\* the words of a state as adb prints it
StateWords(st) == IF st = "no permissions" THEN <<"no", "permissions">> ELSE <<st>>

\* one line of `adb devices` (long: `adb devices -l`) for a device
FormatLine(d, long) ==
    <<d.id>> \o StateWords(d.state) \o (IF long THEN DetailWords ELSE <<>>)

RECURSIVE FormatLines(_, _)
FormatLines(ds, long) ==
    IF ds = <<>> THEN <<>>
    ELSE <<FormatLine(Head(ds), long)>> \o FormatLines(Tail(ds), long)

\* stdout of `adb devices [-l]`
DevicesOutput(ds, long) == <<HeaderLine>> \o FormatLines(ds, long)

DeviceRecs == [id : DeviceIds, state : DeviceStates]

\* every list of at most n devices with distinct identifiers
RECURSIVE DeviceLists(_)
DeviceLists(n) ==
    IF n = 0 THEN {<<>>}
    ELSE LET shorter == DeviceLists(n - 1) IN
         shorter \cup
         {Append(l, d) : l \in {x \in shorter : Len(x) = n - 1},
                         d \in DeviceRecs}

\* [d for d in devices if d['state'] == 'device']
IsReady(d) == d.state = "device"
ReadyOf(l) == SelectSeq(l, IsReady)

DistinctIds(l) == \A i, j \in 1..Len(l) : i # j => l[i].id # l[j].id

(***************************************************************************)
(* The outcome of one subprocess.run and ADBUtils._run_adb.                *)
(***************************************************************************)
\* outcome of subprocess.run: the process exits, the timeout fires, or the
\* call itself raises (OSError: the executable cannot be run)
ExitOutcome(rc, out) == [kind |-> "exit", rc |-> rc, stdout |-> out]
TimeoutOutcome == [kind |-> "timeout", rc |-> 0, stdout |-> <<>>]
OSErrorOutcome == [kind |-> "oserror", rc |-> 0, stdout |-> <<>>]
\* any other exception out of subprocess.run
ErrorOutcome == [kind |-> "error", rc |-> 0, stdout |-> <<>>]
Outcomes == {ExitOutcome(0, <<<<"ok">>>>), ExitOutcome(0, <<>>), ExitOutcome(1, <<>>),
             TimeoutOutcome, OSErrorOutcome, ErrorOutcome}

Returned(ok, out) == [raised |-> FALSE, exc |-> "", ok |-> ok, out |-> out, attempts |-> 1]
Raised(exc) == [raised |-> TRUE, exc |-> exc, ok |-> FALSE, out |-> <<>>, attempts |-> 1]

\* a variant that lets the timeout propagate
RunAdbBody_RaiseTimeout(o) ==
    CASE o.kind = "exit" /\ o.rc # 0 -> Returned(FALSE, <<<<"ADB command failed">>>>)
      [] o.kind = "exit" /\ o.rc = 0 -> Returned(TRUE, o.stdout)
      [] o.kind = "timeout" -> Raised("TimeoutExpired")
      [] OTHER -> Returned(FALSE, <<<<"ADB command failed unexpectedly">>>>)

\* the body of _run_adb: every failure is returned as (False, message)
RunAdbBody(o) ==
    CASE o.kind = "exit" /\ o.rc # 0 -> Returned(FALSE, <<<<"ADB command failed">>>>)
      [] o.kind = "exit" /\ o.rc = 0 -> Returned(TRUE, o.stdout)
      [] o.kind = "timeout" -> Returned(FALSE, <<<<"ADB command timed out">>>>)
      [] OTHER -> Returned(FALSE, <<<<"ADB command failed unexpectedly">>>>)

\* @retry(tries, ...): the wrapped function is called again only when it raises
RECURSIVE RetryLoop(_, _, _)
RetryLoop(outs, tries, n) ==
    LET r == RunAdbBody(Head(outs)) IN
    IF ~r.raised THEN [r EXCEPT !.attempts = n]
    ELSE IF tries = 1 THEN [r EXCEPT !.attempts = n]
    ELSE RetryLoop(Tail(outs), tries - 1, n + 1)

\* ADBUtils._run_adb(args), outs[i] the outcome of its i-th subprocess
RunAdb(outs) == RetryLoop(outs, RetryTries, 1)

\* the same outcome at every attempt
Always(o) == [i \in 1..RetryTries |-> o]

\* ADBUtils.run_adb_command: the stripped stdout, or an exception
RunAdbCommand(hasPath, o) ==
    IF ~hasPath THEN Raised("FileNotFoundError")
    ELSE CASE o.kind = "exit" /\ o.rc # 0 -> Raised("CalledProcessError")
           [] o.kind = "exit" /\ o.rc = 0 -> Returned(TRUE, o.stdout)
           [] o.kind = "timeout" -> Raised("TimeoutExpired")
           [] o.kind = "oserror" -> Raised("FileNotFoundError")
           [] OTHER -> Raised("Exception")

\* ADBUtils._run_command: (returncode, stdout, stderr), 1 for every exception;
\* without adb_path the command list cannot be run (TypeError, caught)
RunCommand(hasPath, o) ==
    IF ~hasPath THEN Returned(FALSE, <<<<"error">>>>)
    ELSE CASE o.kind = "exit" -> Returned(o.rc = 0, o.stdout)
           [] o.kind = "timeout" -> Returned(FALSE, <<<<"Command timed out">>>>)
           [] OTHER -> Returned(FALSE, <<<<"error">>>>)

CallRunAdb ==
    /\ \E outs \in [1..RetryTries -> Outcomes] :
          /\ r_outs' = outs
          /\ r_ret' = RunAdb(outs)
    /\ r_runner' = "_run_adb"
    /\ r_path' = TRUE
    /\ fresh' = r_runner'
    /\ UNCHANGED NotRun

CallRunAdbCommand ==
    /\ \E o \in Outcomes, hasPath \in BOOLEAN :
          /\ r_outs' = <<o>>
          /\ r_path' = hasPath
          /\ r_ret' = RunAdbCommand(hasPath, o)
    /\ r_runner' = "run_adb_command"
    /\ fresh' = r_runner'
    /\ UNCHANGED NotRun

CallRunCommand ==
    /\ \E o \in Outcomes, hasPath \in BOOLEAN :
          /\ r_outs' = <<o>>
          /\ r_path' = hasPath
          /\ r_ret' = RunCommand(hasPath, o)
    /\ r_runner' = "_run_command"
    /\ fresh' = r_runner'
    /\ UNCHANGED NotRun

(***************************************************************************)
(* ADBUtils.get_connected_devices                                          *)
(***************************************************************************)
\* line.split(None, 2): at most three parts
SplitParts(line) == IF Len(line) > 3 THEN 3 ELSE Len(line)

ParseDeviceLine(line) ==
    [id |-> line[1],
     state |-> line[2],
     info |-> IF SplitParts(line) > 2 /\ line[2] = "device"
              THEN {w \in Range(SubSeq(line, 3, Len(line))) : HasSub(w, ":")}
              ELSE {}]

RECURSIVE ParseDeviceLines(_)
ParseDeviceLines(lines) ==
    IF lines = <<>> THEN <<>>
    ELSE LET line == Head(lines) IN
         IF line = BlankLine THEN ParseDeviceLines(Tail(lines))
         ELSE IF SplitParts(line) >= 2
              THEN <<ParseDeviceLine(line)>> \o ParseDeviceLines(Tail(lines))
              ELSE ParseDeviceLines(Tail(lines))

\* res: what _run_adb(['devices', '-l']) returned
GetConnectedDevices(res) ==
    IF ~res.ok THEN <<>>
    ELSE IF res.out = <<>> \/ res.out[1] # HeaderLine THEN <<>>
    ELSE ParseDeviceLines(Tail(res.out))

\* `adb devices -l` against the environment
AdbDevicesLong ==
    RunAdb(Always(IF adb_up THEN ExitOutcome(0, DevicesOutput(devs, TRUE))
                  ELSE ExitOutcome(1, <<>>)))

(***************************************************************************)
(* ADBUtils.get_device_state                                               *)
(***************************************************************************)
NoResult == [ok |-> FALSE, kind |-> "None", id |-> "", state |-> ""]

ClassifyDevices(devices) ==
    IF devices = <<>>
    THEN [ok |-> FALSE, kind |-> "No devices connected", id |-> "", state |-> ""]
    ELSE IF Len(devices) > 1
    THEN [ok |-> FALSE, kind |-> "Multiple devices connected", id |-> "", state |-> ""]
    ELSE IF devices[1].state = "device"
    THEN [ok |-> TRUE, kind |-> "ready", id |-> devices[1].id, state |-> "device"]
    ELSE [ok |-> FALSE, kind |-> "Device is not ready", id |-> devices[1].id,
          state |-> devices[1].state]

DeviceCacheHit == now - last_device_check < cache_timeout /\ device_cache # NoResult

\* what a call returns now
DeviceStateNow ==
    IF DeviceCacheHit THEN device_cache
    ELSE ClassifyDevices(GetConnectedDevices(AdbDevicesLong))

\* what a call does to the object
DeviceStateCall ==
    /\ ds_ret' = DeviceStateNow
    /\ ds_miss' = ~DeviceCacheHit
    /\ device_cache' = DeviceStateNow
    /\ last_device_check' = IF DeviceCacheHit THEN last_device_check ELSE now

GetDeviceState ==
    /\ DeviceStateCall
    /\ ds_inwin' = (ds_prior.valid /\ now - ds_prior.time < cache_timeout)
    /\ ds_expect' = ds_prior.result
    /\ ds_prior' = IF DeviceCacheHit THEN ds_prior
                   ELSE [valid |-> TRUE, time |-> now, result |-> DeviceStateNow]
    /\ fresh' = "get_device_state"
    /\ UNCHANGED NotDs

(***************************************************************************)
(* AppUtils._verify_device                                                 *)
(***************************************************************************)
NoLine == <<"None">>

\* [d for d in devices if d and 'unauthorized' not in d]
RECURSIVE FilterLines(_)
FilterLines(lines) ==
    IF lines = <<>> THEN <<>>
    ELSE IF Head(lines) # BlankLine /\ ~LineHas(Head(lines), "unauthorized")
         THEN <<Head(lines)>> \o FilterLines(Tail(lines))
         ELSE FilterLines(Tail(lines))

\* next((d for d in devices if 'device' in d), None)
RECURSIVE FirstDeviceLine(_)
FirstDeviceLine(lines) ==
    IF lines = <<>> THEN NoLine
    ELSE IF LineHas(Head(lines), "device") THEN Head(lines)
    ELSE FirstDeviceLine(Tail(lines))

\* a variant that refuses to choose among several candidate lines
VerifyDeviceResult_RefuseMultiple(o, cur) ==
    IF o.kind # "exit" \/ o.rc # 0 THEN [ret |-> FALSE, device |-> cur]
    ELSE LET devices == FilterLines(Tail(o.stdout))
             cands == {i \in 1..Len(devices) : LineHas(devices[i], "device")} IN
         IF Cardinality(cands) # 1 THEN [ret |-> FALSE, device |-> cur]
         ELSE [ret |-> TRUE, device |-> FirstDeviceLine(devices)]

\* o: the outcome of subprocess.run(['adb', 'devices'], check=True);
\* the result is the returned flag and the new current_device
VerifyDeviceResult(o, cur) ==
    IF o.kind # "exit" \/ o.rc # 0 THEN [ret |-> FALSE, device |-> cur]
    ELSE LET devices == FilterLines(Tail(o.stdout)) IN
         IF devices = <<>> THEN [ret |-> FALSE, device |-> cur]
         ELSE IF FirstDeviceLine(devices) = NoLine THEN [ret |-> FALSE, device |-> cur]
         ELSE [ret |-> TRUE, device |-> FirstDeviceLine(devices)]

\* `adb devices` against the environment
AdbDevicesShort ==
    IF adb_up THEN ExitOutcome(0, DevicesOutput(devs, FALSE)) ELSE ExitOutcome(1, <<>>)

VerifyDevice ==
    LET r == VerifyDeviceResult(AdbDevicesShort, current_device) IN
    /\ vd_prev' = current_device
    /\ current_device' = r.device
    /\ vd_ret' = r.ret
    /\ fresh' = "_verify_device"
    /\ UNCHANGED NotVd

(***************************************************************************)
(* Package listings and list objects.                                      *)
(***************************************************************************)
\* a line of `pm list packages -f`: whether it starts with 'package:', and
\* what follows the prefix, split at '='
PkgLine(pfx, fields) == [pfx |-> pfx, fields |-> fields]
UserLine == PkgLine(TRUE, <<"/data/app/com.example.app/base.apk", "com.example.app">>)
SystemLine == PkgLine(TRUE, <<"/system/app/Calendar/Calendar.apk", "com.android.calendar">>)
NoEqualsLine == PkgLine(TRUE, <<"/data/app/broken">>)
WarningLine == PkgLine(FALSE, <<"WARNING: linker">>)
PkgListings == {<<>>, <<WarningLine>>, <<UserLine>>, <<UserLine, NoEqualsLine>>,
                <<SystemLine, UserLine>>}

\* package:/data/app/~~Zq3==/com.example.app-1a==/base.apk=com.example.app
EqPathFields ==
    <<"/data/app/~~Zq3", "", "/com.example.app-1a", "", "/base.apk", "com.example.app">>
EqPathLine == PkgLine(TRUE, EqPathFields)

\* '='.join(fields), for the fields of the vocabulary
JoinEq(fields) ==
    IF Len(fields) = 1 THEN fields[1]
    ELSE IF fields = SubSeq(EqPathFields, 1, 5)
    THEN "/data/app/~~Zq3==/com.example.app-1a==/base.apk"
    ELSE IF fields = SubSeq(EqPathFields, 2, 6)
    THEN "=/com.example.app-1a==/base.apk=com.example.app"
    ELSE "?"

\* a Python list: its identity and its items; NoList is None
ListObj(oid, items) == [oid |-> oid, items |-> items]
NoList == ListObj(0, <<>>)
NoQuery == [valid |-> FALSE, time |-> 0, obj |-> NoList]

\* `adb shell ...` reaches the device: the server answers and exactly one
\* device is attached, in the `device` state
ShellWorks ==
    adb_up /\ shell_up /\ Len(devs) = 1 /\ devs[1].state = "device"

\* outcome of `adb shell pm list packages -f -3`
PmListOutcome == IF ShellWorks THEN ExitOutcome(0, pkgs) ELSE ExitOutcome(1, <<>>)

(***************************************************************************)
(* ADBUtils.get_installed_apps                                             *)
(***************************************************************************)
\* re.match(r'package:(.+?)=(.+)$', line.strip())
\* (.+?) stops at the first '=', (.+)$ takes the rest, further '=' included
AdbLineMatches(line) ==
    /\ line.pfx /\ Len(line.fields) >= 2 /\ line.fields[1] # ""
    /\ (Len(line.fields) > 2 \/ line.fields[2] # "")

RECURSIVE AdbParsePackages(_, _)
AdbParsePackages(lines, system_apps) ==
    IF lines = <<>> THEN <<>>
    ELSE LET line == Head(lines)
             rest == AdbParsePackages(Tail(lines), system_apps) IN
         IF ~AdbLineMatches(line) THEN rest
         ELSE LET path == line.fields[1]
                  system == HasSub(path, "/system/") IN
              IF ~system_apps /\ system THEN rest
              ELSE <<[package |-> JoinEq(Tail(line.fields)), path |-> path,
                      system |-> system]>> \o rest

\* the four `dumpsys package` commands run for a matching line
AdbDetailCommands(lines) == 4 * Len(SelectSeq(lines, AdbLineMatches))

AppCacheHit(force_refresh) ==
    ~force_refresh /\ now - last_app_refresh < cache_timeout /\ app_cache # NoList

\* one call: what it does to the object and what it returns (ia_ret')
InstalledAppsCall(system_apps, force_refresh) ==
    /\ next_oid <= MaxObjs
    /\ ia_force' = force_refresh
    /\ ia_inwin' = (~force_refresh /\ q_adb.valid /\ now - q_adb.time < cache_timeout)
    /\ ia_expect' = q_adb.obj
    /\ ia_system' = system_apps
    /\ IF AppCacheHit(force_refresh)
       THEN /\ ia_ret' = app_cache
            /\ ia_spawned' = 0
            /\ UNCHANGED <<dsVars, adbAppVars, next_oid, q_adb>>
       ELSE LET checked == IF DeviceCacheHit THEN 0 ELSE 1
                pm == RunAdb(Always(PmListOutcome))
                apps == ListObj(next_oid,
                                IF pm.ok THEN AdbParsePackages(pm.out, system_apps)
                                ELSE <<>>) IN
            /\ DeviceStateCall
            /\ next_oid' = next_oid + 1
            /\ ia_ret' = apps
            /\ IF ~DeviceStateNow.ok
               THEN /\ ia_spawned' = checked
                    /\ UNCHANGED <<adbAppVars, q_adb>>
               ELSE IF ~pm.ok
               THEN /\ ia_spawned' = checked + 1
                    /\ UNCHANGED <<adbAppVars, q_adb>>
               ELSE /\ ia_spawned' = checked + 1 + AdbDetailCommands(pm.out)
                    /\ app_cache' = apps
                    /\ last_app_refresh' = now
                    /\ q_adb' = [valid |-> TRUE, time |-> now, obj |-> apps]
    /\ UNCHANGED q_app

GetInstalledApps ==
    /\ \E system_apps, force_refresh \in BOOLEAN :
          InstalledAppsCall(system_apps, force_refresh)
    /\ fresh' = "ADBUtils.get_installed_apps"
    /\ UNCHANGED NotAdbApps

(***************************************************************************)
(* AppUtils.get_installed_apps and check_adb_status                        *)
(***************************************************************************)
\* line.startswith('package:') and len(line[8:].split('=')) == 2
AppLineMatches(line) == line.pfx /\ Len(line.fields) = 2

RECURSIVE AppParsePackages(_)
AppParsePackages(lines) ==
    IF lines = <<>> THEN <<>>
    ELSE LET line == Head(lines)
             rest == AppParsePackages(Tail(lines)) IN
         IF ~AppLineMatches(line) THEN rest
         ELSE <<[package |-> line.fields[2], path |-> line.fields[1],
                 system |-> FALSE]>> \o rest

\* subprocesses of one _run_adb_command: the command, and a _verify_device
\* before it while adb_ready is False
RunAdbCommandCost == IF adb_ready THEN 1 ELSE 2

\* _get_app_name runs one `dumpsys package` per listed package
AppNameCommands(lines) == Len(SelectSeq(lines, AppLineMatches)) * RunAdbCommandCost

AppUtilsCacheHit(force_refresh) ==
    ~force_refresh /\ _app_cache.items # <<>> /\ now - _last_app_refresh < AppCacheWindow

\* `return self._app_cache` if it is non-empty, else `return []`
CacheOrEmpty == IF _app_cache.items # <<>> THEN _app_cache ELSE ListObj(next_oid, <<>>)

AppUtilsGetInstalledApps ==
    /\ next_oid <= MaxObjs
    /\ \E force_refresh \in BOOLEAN :
          /\ ia_force' = force_refresh
          /\ ia_inwin' = (~force_refresh /\ q_app.valid /\ now - q_app.time < AppCacheWindow)
          /\ ia_expect' = q_app.obj
          /\ ia_system' = FALSE
          /\ IF AppUtilsCacheHit(force_refresh)
             THEN /\ ia_ret' = _app_cache
                  /\ ia_spawned' = 0
                  /\ UNCHANGED <<vdVars, appAppVars, next_oid, q_app>>
             ELSE LET v == VerifyDeviceResult(AdbDevicesShort, current_device)
                      pm == PmListOutcome
                      apps == ListObj(next_oid, AppParsePackages(pm.stdout)) IN
                  /\ vd_prev' = current_device
                  /\ current_device' = v.device
                  /\ vd_ret' = v.ret
                  /\ next_oid' = next_oid + 1
                  /\ IF ~v.ret
                     THEN /\ ia_ret' = CacheOrEmpty
                          /\ ia_spawned' = 1
                          /\ UNCHANGED <<appAppVars, q_app>>
                     ELSE IF pm.rc # 0
                     THEN /\ ia_ret' = CacheOrEmpty
                          /\ ia_spawned' = 1 + RunAdbCommandCost
                          /\ UNCHANGED <<appAppVars, q_app>>
                     ELSE IF pm.stdout = <<>>
                     THEN /\ ia_ret' = ListObj(next_oid, <<>>)
                          /\ ia_spawned' = 1 + RunAdbCommandCost
                          /\ q_app' = [valid |-> TRUE, time |-> now, obj |-> ia_ret']
                          /\ UNCHANGED appAppVars
                     ELSE /\ ia_ret' = apps
                          /\ ia_spawned' = 1 + RunAdbCommandCost + AppNameCommands(pm.stdout)
                          /\ _app_cache' = apps
                          /\ _last_app_refresh' = now
                          /\ q_app' = [valid |-> TRUE, time |-> now, obj |-> apps]
    /\ UNCHANGED q_adb
    /\ fresh' = "AppUtils.get_installed_apps"
    /\ UNCHANGED NotAppApps

\* a variant that verifies the device on every call
CheckIsRecent_Never == FALSE

\* `current_time - self.last_check < 2`
CheckIsRecent == now - last_check < CheckInterval

CheckAdbStatus ==
    /\ ck_inwin' = (ck_prior.valid /\ now - ck_prior.time < CheckInterval)
    /\ ck_expect' = adb_ready
    /\ ck_verified' = ~CheckIsRecent
    /\ ck_prior' = IF CheckIsRecent THEN ck_prior ELSE [valid |-> TRUE, time |-> now]
    /\ IF CheckIsRecent
       THEN UNCHANGED <<readyVars, vdVars>>
       ELSE LET v == VerifyDeviceResult(AdbDevicesShort, current_device) IN
            /\ last_check' = now
            /\ adb_ready' = v.ret
            /\ vd_prev' = current_device
            /\ current_device' = v.device
            /\ vd_ret' = v.ret
    /\ ck_ret' = adb_ready'
    /\ fresh' = "check_adb_status"
    /\ UNCHANGED NotReady

(***************************************************************************)
(* AppTab: tasks on the executor threads, slots on the UI thread.          *)
(***************************************************************************)
\* a widget mutated by a thread: "ui", "executor" (a ThreadPoolExecutor
\* worker) or "qthread" (the QThread of a Worker)
Mut(widget, thread) == [widget |-> widget, thread |-> thread]
MutAll(widgets, thread) == {Mut(w, thread) : w \in widgets}

\* a slot call queued for the UI thread by a signal emitted on another thread
Event(slot, arg) == [slot |-> slot, arg |-> arg]

\* ADBUtils.adb_ready / check_adb_status: exactly one listed device is ready
AdbReadyNow ==
    LET res == AdbDevicesLong IN
    res.ok /\ Len(ReadyOf(GetConnectedDevices(res))) = 1

\* ADBUtils.get_app_analytics: None without a ready device; with one, the
\* first command is _run_adb(..., use_shell=True), a TypeError that the
\* function catches, and None again
NoAnalytics == [found |-> FALSE]
GetAppAnalytics(device_ok) == IF ~device_ok THEN NoAnalytics ELSE NoAnalytics

NoDeviceItems == <<"No device connected">>
AnalyticsLabels == {"cpu_label", "battery_label", "rx_label", "tx_label",
                    "app_size_label", "data_size_label", "total_size_label"}
NoDeviceWidgets == {"app_list", "status_label", "refresh_btn", "auto_refresh",
                    "show_system_apps"}

\* AppTab._check_adb_status, called on the UI thread
TabCheckAdbStatus ==
    /\ Len(executor_q) < MaxTasks
    /\ executor_q' = Append(executor_q, "check_worker")
    /\ fresh' = "_check_adb_status"
    /\ UNCHANGED <<ui_events, widget_log, app_list, whVars>>
    /\ UNCHANGED NotGui

\* AppTab._update_analytics, called on the UI thread with an app selected
TabUpdateAnalytics ==
    /\ Len(executor_q) < MaxTasks
    /\ AdbReadyNow
    /\ app_list # <<>> /\ app_list # NoDeviceItems
    /\ executor_q' = Append(executor_q, "_fetch_analytics")
    /\ fresh' = "_update_analytics"
    /\ UNCHANGED <<ui_events, widget_log, app_list, whVars>>
    /\ UNCHANGED NotGui

\* check_worker, run by an executor thread; _refresh_app_list is called on
\* that thread and submits refresh_worker
RunCheckWorker ==
    /\ executor_q # <<>> /\ Head(executor_q) = "check_worker"
    /\ Len(ui_events) < MaxEvents
    /\ IF AdbReadyNow
       THEN /\ executor_q' = Append(Tail(executor_q), "refresh_worker")
            /\ UNCHANGED ui_events
       ELSE /\ executor_q' = Tail(executor_q)
            /\ ui_events' = Append(ui_events, Event("_update_no_device_ui", <<>>))
    /\ fresh' = "check_worker"
    /\ UNCHANGED <<widget_log, app_list, whVars>>
    /\ UNCHANGED NotGui

\* the display name of each app
RECURSIVE AppItems(_)
AppItems(apps) ==
    IF apps = <<>> THEN <<>> ELSE <<Head(apps).package>> \o AppItems(Tail(apps))

\* refresh_worker, run by an executor thread
RunRefreshWorker ==
    /\ executor_q # <<>> /\ Head(executor_q) = "refresh_worker"
    /\ executor_q' = Tail(executor_q)
    /\ InstalledAppsCall(FALSE, FALSE)
    /\ IF ia_ret'.items # <<>>
       THEN /\ app_list' = AppItems(ia_ret'.items)
            /\ widget_log' = widget_log \cup {Mut("app_list", "executor")}
       ELSE UNCHANGED <<app_list, widget_log>>
    /\ fresh' = "refresh_worker"
    /\ UNCHANGED <<ui_events, whVars>>
    /\ UNCHANGED NotAdbAppsCall

\* AppTab._fetch_analytics, run by an executor thread
RunFetchAnalytics ==
    /\ executor_q # <<>> /\ Head(executor_q) = "_fetch_analytics"
    /\ executor_q' = Tail(executor_q)
    /\ DeviceStateCall
    /\ IF GetAppAnalytics(DeviceStateNow.ok) # NoAnalytics
       THEN widget_log' = widget_log \cup MutAll(AnalyticsLabels, "executor")
       ELSE UNCHANGED widget_log
    /\ fresh' = "_fetch_analytics"
    /\ UNCHANGED <<ui_events, app_list, whVars>>
    /\ UNCHANGED <<envVars, parseVars, vdVars, runVars, appsVars, raceVars, dlgVars, moreVars, stVars>>

\* update_ui_signal delivered: the UI thread runs _update_no_device_ui
TabUpdateNoDeviceUi ==
    /\ ui_events # <<>> /\ Head(ui_events).slot = "_update_no_device_ui"
    /\ ui_events' = Tail(ui_events)
    /\ app_list' = NoDeviceItems
    /\ widget_log' = widget_log \cup MutAll(NoDeviceWidgets, "ui")
    /\ fresh' = "_update_no_device_ui"
    /\ UNCHANGED <<executor_q, whVars>>
    /\ UNCHANGED NotGui

(***************************************************************************)
(* WirelessHandlerWidget: a Worker on a QThread per operation.             *)
(***************************************************************************)
NoAttr == [set |-> FALSE, value |-> <<>>]

\* refreshButton clicked: start_device_refresh and _start_worker
StartDeviceRefresh ==
    /\ refreshButton
    /\ active_threads < MaxThreads
    /\ refreshButton' = FALSE
    /\ active_threads' = active_threads + 1
    /\ widget_log' = widget_log \cup MutAll({"statusLabel", "refreshButton"}, "ui")
    /\ fresh' = "start_device_refresh"
    /\ UNCHANGED <<executor_q, ui_events, app_list, _last_result, deviceListWidget>>
    /\ UNCHANGED NotGui

\* Worker.run on its QThread: the function runs, result or error is emitted,
\* then finished (the completion callback and the removal from active_threads)
WorkerRun ==
    /\ active_threads > 0
    /\ Len(ui_events) + 2 <= MaxEvents
    /\ \E raised \in BOOLEAN :
          ui_events' = ui_events \o
              <<IF raised THEN Event("handle_worker_error", <<>>)
                ELSE Event("handle_worker_result", GetConnectedDevices(AdbDevicesLong)),
                Event("handle_device_refresh_complete", <<>>)>>
    /\ active_threads' = active_threads - 1
    /\ fresh' = "Worker.run"
    /\ UNCHANGED <<executor_q, widget_log, app_list, _last_result, deviceListWidget,
                   refreshButton>>
    /\ UNCHANGED NotGui

HandleWorkerResult ==
    /\ ui_events # <<>> /\ Head(ui_events).slot = "handle_worker_result"
    /\ ui_events' = Tail(ui_events)
    /\ _last_result' = [set |-> TRUE, value |-> Head(ui_events).arg]
    /\ fresh' = "handle_worker_result"
    /\ UNCHANGED <<executor_q, widget_log, app_list, active_threads, deviceListWidget,
                   refreshButton>>
    /\ UNCHANGED NotGui

HandleWorkerError ==
    /\ ui_events # <<>> /\ Head(ui_events).slot = "handle_worker_error"
    /\ ui_events' = Tail(ui_events)
    /\ widget_log' = widget_log \cup {Mut("statusLabel", "ui")}
    /\ fresh' = "handle_worker_error"
    /\ UNCHANGED <<executor_q, app_list, whVars>>
    /\ UNCHANGED NotGui

RECURSIVE DeviceItems(_)
DeviceItems(devices) ==
    IF devices = <<>> THEN <<>>
    ELSE <<<<Head(devices).id, Head(devices).state>>>> \o DeviceItems(Tail(devices))

HandleDeviceRefreshComplete ==
    /\ ui_events # <<>> /\ Head(ui_events).slot = "handle_device_refresh_complete"
    /\ ui_events' = Tail(ui_events)
    /\ deviceListWidget' = DeviceItems(_last_result.value)
    /\ refreshButton' = TRUE
    /\ widget_log' = widget_log \cup
                        MutAll({"deviceListWidget", "refreshButton", "statusLabel"}, "ui")
    /\ fresh' = "handle_device_refresh_complete"
    /\ UNCHANGED <<executor_q, app_list, active_threads, _last_result>>
    /\ UNCHANGED NotGui

(***************************************************************************)
(* ADBUtils.get_installed_apps called by two threads on one object: the UI *)
(* thread (_on_app_selected -> fetch_apps) and an executor thread          *)
(* (refresh_worker), one step per group of statements.                     *)
(***************************************************************************)
Threads == {"ui", "executor"}
NoRead == [hit |-> FALSE, list |-> 0, stamp |-> 0]

\* now = time.time() and the cache check
AppsCheckCache(t) ==
    /\ t_pc[t] = "idle"
    /\ t_now' = [t_now EXCEPT ![t] = now]
    /\ IF AppCacheHit(FALSE)
       THEN /\ t_read' = [t_read EXCEPT ![t] =
                             [hit |-> TRUE, list |-> app_cache.oid, stamp |-> stamp_oid]]
            /\ UNCHANGED t_pc
       ELSE /\ t_read' = [t_read EXCEPT ![t] = NoRead]
            /\ t_pc' = [t_pc EXCEPT ![t] = "query"]
    /\ fresh' = "get_installed_apps:check"
    /\ UNCHANGED <<t_apps, stamp_oid, dsVars, adbAppVars, next_oid, iaCallVars>>
    /\ UNCHANGED NotRace

\* get_device_state, the package listing and the loop that builds `apps`
AppsQuery(t) ==
    /\ t_pc[t] = "query"
    /\ DeviceStateCall
    /\ LET pm == RunAdb(Always(PmListOutcome)) IN
       IF ~DeviceStateNow.ok \/ ~pm.ok
       THEN /\ t_pc' = [t_pc EXCEPT ![t] = "idle"]
            /\ UNCHANGED <<t_apps, next_oid>>
       ELSE /\ next_oid <= MaxObjs
            /\ t_apps' = [t_apps EXCEPT ![t] =
                             ListObj(next_oid, AdbParsePackages(pm.out, FALSE))]
            /\ next_oid' = next_oid + 1
            /\ t_pc' = [t_pc EXCEPT ![t] = "store_list"]
    /\ fresh' = "get_installed_apps:query"
    /\ UNCHANGED <<t_now, t_read, stamp_oid, adbAppVars, iaCallVars>>
    /\ UNCHANGED NotRace

\* self.app_cache['apps'] = apps
AppsStoreList(t) ==
    /\ t_pc[t] = "store_list"
    /\ app_cache' = t_apps[t]
    /\ t_pc' = [t_pc EXCEPT ![t] = "store_time"]
    /\ fresh' = "get_installed_apps:store_list"
    /\ UNCHANGED <<t_now, t_apps, t_read, stamp_oid, last_app_refresh, dsVars, next_oid,
                   iaCallVars>>
    /\ UNCHANGED NotRace

\* self.last_app_refresh = now; return apps
AppsStoreTime(t) ==
    /\ t_pc[t] = "store_time"
    /\ last_app_refresh' = t_now[t]
    /\ stamp_oid' = t_apps[t].oid
    /\ t_pc' = [t_pc EXCEPT ![t] = "idle"]
    /\ fresh' = "get_installed_apps:store_time"
    /\ UNCHANGED <<t_now, t_apps, t_read, app_cache, dsVars, next_oid, iaCallVars>>
    /\ UNCHANGED NotRace

(***************************************************************************)
(* Wireless pairing: ADBUtils.start_wireless_pairing, pair_wireless_device *)
(* and WirelessDialog.                                                     *)
(***************************************************************************)
CodeTexts == {"", "123456", "654321", "12345", "12ab56"}

\* len(code) == 6 and code.isdigit()
ValidCode(code) == code \in {"123456", "654321"}

\* ''.join(c for c in line if c.isdigit()): the words of the vocabulary that
\* carry digits are digits only, and a line has at most one of them
IsDigitWord(word) == word \in {"123456", "654321", "12345"}
LineDigits(line) ==
    LET ds == SelectSeq(line, IsDigitWord) IN IF ds = <<>> THEN "" ELSE ds[1]

PromptLine(code) == <<"Enter pairing code:", code>>
SuccessLine == <<"Successfully paired to 192.168.1.5:37275">>
FailedLine == <<"Failed: Wrong password or connection was dropped.">>

TextHas(lines, pat) == \E i \in 1..Len(lines) : LineHas(lines[i], pat)

\* None
NoCode == ""

\* the first line with 'Enter' and 'pairing code' whose digits are six
RECURSIVE FirstCode(_)
FirstCode(lines) ==
    IF lines = <<>> THEN NoCode
    ELSE LET line == Head(lines) IN
         IF LineHas(line, "Enter") /\ LineHas(line, "pairing code")
              /\ ValidCode(LineDigits(line))
         THEN LineDigits(line)
         ELSE FirstCode(Tail(lines))

\* ADBUtils.start_wireless_pairing: the code, or None
StartWirelessPairing(hasPath, o) ==
    IF ~hasPath THEN NoCode
    ELSE IF o.kind # "exit" THEN NoCode
    ELSE IF o.rc # 0 THEN NoCode
    ELSE FirstCode(o.stdout)

\* a variant that trusts the exit status alone
PairWirelessDevice_ExitOnly(hasPath, o) ==
    hasPath /\ o.kind = "exit" /\ o.rc = 0

\* ADBUtils.pair_wireless_device
PairWirelessDevice(hasPath, o) ==
    IF ~hasPath THEN FALSE
    ELSE IF o.kind # "exit" THEN FALSE
    ELSE o.rc = 0 /\ TextHas(o.stdout, "Successfully paired")

StartOutcomes == {ExitOutcome(0, <<PromptLine("123456")>>),
                  ExitOutcome(0, <<FailedLine, PromptLine("654321")>>),
                  ExitOutcome(0, <<PromptLine("12345")>>),
                  ExitOutcome(0, <<FailedLine>>),
                  ExitOutcome(1, <<PromptLine("123456")>>),
                  OSErrorOutcome}
PairOutcomes == {ExitOutcome(0, <<SuccessLine>>), ExitOutcome(0, <<FailedLine>>),
                 ExitOutcome(0, <<>>), ExitOutcome(1, <<SuccessLine>>),
                 ExitOutcome(1, <<FailedLine>>), OSErrorOutcome}

SuccessStatus == "Successfully paired! You can now connect."
CodeStatus(code) ==
    IF ValidCode(code) THEN "Ready to connect" ELSE "Enter a 6-digit code to connect"

\* a variant that rearms the button whatever came back
CodeReturned_Always(code) == TRUE

\* `if code:` in _do_start_pairing
CodeReturned(code) == code # NoCode

\* the dialog accepts input: the window-modal progress dialog is not open
Interactive == ~progress_open

\* pair_button clicked while start_pairing is connected
StartPairing ==
    /\ Interactive /\ pair_enabled /\ pair_handler = "start_pairing"
    /\ progress_open' = TRUE
    /\ fresh' = "start_pairing"
    /\ UNCHANGED <<pair_handler, pair_text, pair_enabled, connect_enabled, code_input,
                   status_label, dlg_warning, dlgHistory>>
    /\ UNCHANGED NotDlg

\* the single-shot timer fires: _do_start_pairing
DoStartPairing ==
    /\ progress_open
    /\ progress_open' = FALSE
    /\ \E hasPath \in BOOLEAN, o \in StartOutcomes :
          LET code == StartWirelessPairing(hasPath, o) IN
          /\ IF CodeReturned(code)
             THEN /\ code_input' = code
                  /\ connect_enabled' = ValidCode(code)
                  /\ pair_text' = "Complete Pairing"
                  /\ pair_handler' = "complete_pairing"
                  /\ status_label' = "Verify the code matches your device"
                  /\ dlg_warning' = ""
             ELSE /\ dlg_warning' = "Failed to start wireless pairing"
                  /\ UNCHANGED <<code_input, connect_enabled, pair_text, pair_handler,
                                 status_label>>
          /\ code_shown' = (code_shown \/ (code # NoCode /\ code_input' = code))
    /\ fresh' = "_do_start_pairing"
    /\ UNCHANGED <<pair_enabled, pair_cmds, pair_path, pair_out, submitted>>
    /\ UNCHANGED NotDlg

\* pair_button clicked while complete_pairing is connected
CompletePairing ==
    /\ Interactive /\ pair_enabled /\ pair_handler = "complete_pairing"
    /\ pair_cmds < MaxPairs
    /\ IF ~ValidCode(code_input)
       THEN /\ dlg_warning' = "Please enter a valid 6-digit code"
            /\ submitted' = FALSE
            /\ UNCHANGED <<status_label, connect_enabled, pair_enabled, pair_cmds,
                           pair_path, pair_out>>
       ELSE \E hasPath \in BOOLEAN, o \in PairOutcomes :
               /\ submitted' = TRUE
               /\ pair_cmds' = pair_cmds + 1
               /\ pair_path' = hasPath
               /\ pair_out' = o
               /\ IF PairWirelessDevice(hasPath, o)
                  THEN /\ status_label' = SuccessStatus
                       /\ connect_enabled' = TRUE
                       /\ pair_enabled' = FALSE
                       /\ dlg_warning' = ""
                  ELSE /\ dlg_warning' = "Pairing failed. Please try again."
                       /\ UNCHANGED <<status_label, connect_enabled, pair_enabled>>
    /\ fresh' = "complete_pairing"
    /\ UNCHANGED <<pair_handler, pair_text, code_input, progress_open, code_shown>>
    /\ UNCHANGED NotDlg

\* the user edits code_input: _on_code_changed
EditCode ==
    /\ Interactive
    /\ \E code \in CodeTexts :
          /\ code # code_input
          /\ code_input' = code
          /\ connect_enabled' = ValidCode(code)
          /\ status_label' = CodeStatus(code)
    /\ fresh' = "_on_code_changed"
    /\ UNCHANGED <<pair_handler, pair_text, pair_enabled, dlg_warning, progress_open,
                   dlgHistory>>
    /\ UNCHANGED NotDlg

\* connect_button clicked: connect_device
ConnectDevice ==
    /\ Interactive /\ connect_enabled
    /\ \E ip_given, port_number, connected \in BOOLEAN :
          IF ~ip_given
          THEN dlg_warning' = "Please enter an IP address" /\ UNCHANGED status_label
          ELSE IF ~port_number
          THEN dlg_warning' = "Port must be a number" /\ UNCHANGED status_label
          ELSE IF connected
          THEN dlg_warning' = "" /\ status_label' = "Connected"
          ELSE dlg_warning' = "Failed to connect to device" /\ UNCHANGED status_label
    /\ fresh' = "connect_device"
    /\ UNCHANGED <<pair_handler, pair_text, pair_enabled, connect_enabled, code_input,
                   progress_open, dlgHistory>>
    /\ UNCHANGED NotDlg

\* disconnect_button clicked: disconnect_device
DisconnectDevice ==
    /\ Interactive
    /\ \E disconnected \in BOOLEAN :
          IF disconnected
          THEN dlg_warning' = "" /\ status_label' = "Disconnected"
          ELSE dlg_warning' = "Failed to disconnect" /\ UNCHANGED status_label
    /\ fresh' = "disconnect_device"
    /\ UNCHANGED <<pair_handler, pair_text, pair_enabled, connect_enabled, code_input,
                   progress_open, dlgHistory>>
    /\ UNCHANGED NotDlg

(***************************************************************************)
(* MainWindow: start_pairing with PairingDialog, refresh_devices.          *)
(***************************************************************************)
\* self.adb_utils.start_pairing(): ADBUtils defines no start_pairing, the
\* attribute lookup raises AttributeError; a revision that defines it returns
\* the (success, address, code) that start_pairing unpacks
StartPairingResults ==
    {[kind |-> "AttributeError", success |-> FALSE, code |-> NoCode]}
    \cup {[kind |-> "returned", success |-> TRUE, code |-> c] : c \in {"123456", "654321"}}
    \cup {[kind |-> "returned", success |-> FALSE, code |-> NoCode]}

\* `for device_id, state, model in devices`: a device dict unpacks into its
\* keys when it has exactly three of them, 'id', 'state' and one detail
Unpacks(d) == 2 + Cardinality(d.info) = 3

\* the entries appended to devices_text before the loop ends or raises
RECURSIVE DeviceEntries(_)
DeviceEntries(devices) ==
    IF devices = <<>> THEN <<>>
    ELSE IF Unpacks(Head(devices))
    THEN <<"Device: id">> \o DeviceEntries(Tail(devices))
    ELSE <<>>

\* MainWindow.refresh_devices: the text and the message box it leaves
RefreshDevices(devices) ==
    [text |-> IF devices = <<>> THEN <<"No devices connected">>
              ELSE DeviceEntries(devices),
     box |-> IF \E i \in 1..Len(devices) : ~Unpacks(devices[i])
             THEN "Failed to refresh devices" ELSE mw_box]

\* pair_btn clicked: start_pairing up to dialog.exec()
MainStartPairing ==
    /\ ~mw_dialog
    /\ \E r \in StartPairingResults :
          IF r.kind = "AttributeError"
          THEN /\ mw_box' = "Failed to start pairing"
               /\ mw_trace' = <<"start_pairing">>
               /\ UNCHANGED <<mw_dialog, mw_code>>
          ELSE IF r.success
          THEN /\ mw_dialog' = TRUE
               /\ mw_code' = r.code
               /\ mw_trace' = <<"start_pairing", "code shown">>
               /\ UNCHANGED mw_box
          ELSE /\ mw_box' = "Failed to start pairing"
               /\ mw_trace' = <<"start_pairing">>
               /\ UNCHANGED <<mw_dialog, mw_code>>
    /\ fresh' = "MainWindow.start_pairing"
    /\ UNCHANGED devices_text
    /\ UNCHANGED <<coreVars, pkVars, memVars, rsVars, duVars, spVars, tmVars, lateVars>>

\* the user clicks OK: dialog.exec() returns Accepted and start_pairing goes on
PairingDialogAccept ==
    /\ mw_dialog
    /\ mw_dialog' = FALSE
    /\ LET r == RefreshDevices(GetConnectedDevices(AdbDevicesLong)) IN
          /\ devices_text' = r.text
          /\ mw_box' = r.box
    /\ mw_trace' = mw_trace \o <<"accepted", "adb devices">>
    /\ fresh' = "PairingDialog.accept"
    /\ UNCHANGED mw_code
    /\ UNCHANGED <<coreVars, pkVars, memVars, rsVars, duVars, spVars, tmVars, lateVars>>

\* the user clicks Cancel: dialog.exec() returns Rejected
PairingDialogReject ==
    /\ mw_dialog
    /\ mw_dialog' = FALSE
    /\ mw_trace' = Append(mw_trace, "rejected")
    /\ fresh' = "PairingDialog.reject"
    /\ UNCHANGED <<mw_code, mw_box, devices_text>>
    /\ UNCHANGED <<coreVars, pkVars, memVars, rsVars, duVars, spVars, tmVars, lateVars>>

\* refresh_btn clicked outside a pairing flow
MainRefreshDevices ==
    /\ ~mw_dialog
    /\ LET r == RefreshDevices(GetConnectedDevices(AdbDevicesLong)) IN
          /\ devices_text' = r.text
          /\ mw_box' = r.box
    /\ mw_trace' = <<>>
    /\ fresh' = "refresh_devices"
    /\ UNCHANGED <<mw_dialog, mw_code>>
    /\ UNCHANGED <<coreVars, pkVars, memVars, rsVars, duVars, spVars, tmVars, lateVars>>

(***************************************************************************)
(* ADBUtils.get_installed_packages and the three parsers side by side.     *)
(***************************************************************************)
Last(seq) == seq[Len(seq)]
Front(seq) == SubSeq(seq, 1, Len(seq) - 1)

\* re.match(r'package:(.+)=(.+)', line.strip()): the first group is greedy and
\* ends at the last '=' (lines whose text ends in '=' are not in the vocabulary)
PkgLineMatches(line) ==
    /\ line.pfx /\ Len(line.fields) >= 2 /\ Last(line.fields) # ""
    /\ (Len(line.fields) > 2 \/ line.fields[1] # "")

\* the name and path of the package_info records of get_installed_packages
RECURSIVE GetInstalledPackages(_)
GetInstalledPackages(lines) ==
    IF lines = <<>> THEN <<>>
    ELSE LET line == Head(lines)
             rest == GetInstalledPackages(Tail(lines)) IN
         IF ~PkgLineMatches(line) THEN rest
         ELSE <<[package |-> Last(line.fields), path |-> JoinEq(Front(line.fields))]>>
              \o rest

PkgParseLines == {UserLine, SystemLine, NoEqualsLine, WarningLine, EqPathLine}
RECURSIVE PkgLineLists(_)
PkgLineLists(n) ==
    IF n = 0 THEN {<<>>}
    ELSE LET shorter == PkgLineLists(n - 1) IN
         shorter \cup {Append(l, x) : l \in {y \in shorter : Len(y) = n - 1},
                                      x \in PkgParseLines}

PathAndPackage(recs) ==
    [i \in 1..Len(recs) |-> [package |-> recs[i].package, path |-> recs[i].path]]

\* one successful listing parsed by each of the three
ParsePackageListing ==
    /\ \E lines \in PkgLineLists(MaxPkgLines), system_apps \in BOOLEAN :
          /\ pk_lines' = lines
          /\ pk_system' = system_apps
          /\ pk_adb' = AdbParsePackages(lines, system_apps)
          /\ pk_app' = PathAndPackage(AppParsePackages(lines))
          /\ pk_pkg' = GetInstalledPackages(lines)
    /\ fresh' = "parse packages"
    /\ UNCHANGED <<coreVars, mwVars, memVars, rsVars, duVars, spVars, tmVars, lateVars>>

(***************************************************************************)
(* get_memory_info: the parsers of `dumpsys meminfo <package>`.            *)
(***************************************************************************)
\* the lines of a dump that the parsers tell apart, with the number they carry:
\*   "summary"  ` App Summary`
\*   "pss"      `           TOTAL PSS:    <n>            TOTAL RSS:    <m>`
\*   "table"    `        TOTAL    <n>    ...` (the last row of the table)
\*   "java"     `       Java Heap:    <n>`
MemLine(kind, n) == [kind |-> kind, n |-> n]
MemValues == {2048, 5120}
MemLines ==
    {MemLine("summary", 0)} \cup {MemLine(k, n) : k \in {"pss", "table", "java"},
                                                  n \in MemValues}
RECURSIVE MemDumps(_)
MemDumps(n) ==
    IF n = 0 THEN {<<>>}
    ELSE LET shorter == MemDumps(n - 1) IN
         shorter \cup {Append(l, x) : l \in {y \in shorter : Len(y) = n - 1},
                                      x \in MemLines}

\* ADBUtils.get_memory_info (HEAD): the loop over the lines; once
\* in_app_summary is set the `elif 'TOTAL PSS:' in line` branch is not reached,
\* and a "pss" line splits at ':' into more than two parts
RECURSIVE HeadMemoryLoop(_, _, _)
HeadMemoryLoop(lines, in_app_summary, info) ==
    IF lines = <<>> THEN info
    ELSE LET line == Head(lines) IN
         IF line.kind = "summary" THEN HeadMemoryLoop(Tail(lines), TRUE, info)
         ELSE IF in_app_summary
         THEN HeadMemoryLoop(Tail(lines), TRUE,
                  IF line.kind = "java" THEN [info EXCEPT !.java_heap = line.n] ELSE info)
         ELSE HeadMemoryLoop(Tail(lines), FALSE,
                  IF line.kind = "pss" THEN [info EXCEPT !.total_pss = line.n] ELSE info)
HeadMemoryInfo(lines) ==
    HeadMemoryLoop(lines, FALSE, [total_pss |-> 0, java_heap |-> 0])

\* ADBUtils.get_memory_info (parent revision): re.search(r'TOTAL\s+(\d+)', line)
\* on the lines that contain 'TOTAL' finds a number in the table row only
RECURSIVE ParentMemoryLoop(_, _)
ParentMemoryLoop(lines, info) ==
    IF lines = <<>> THEN info
    ELSE LET line == Head(lines) IN
         ParentMemoryLoop(Tail(lines),
             IF line.kind = "table" THEN [info EXCEPT !.total = line.n * 1024]
             ELSE IF line.kind = "java" THEN [info EXCEPT !.java_heap = line.n * 1024]
             ELSE info)
ParentMemoryInfo(lines) == ParentMemoryLoop(lines, [total |-> 0, java_heap |-> 0])

\* AppUtils.get_memory_info: re.search(r'TOTAL PSS:\s+(\d+)', output), the first
\* match in the whole output; total_mb is kept as its number of kB (mb * 1024),
\* has_total tells whether the key is there
AppMemoryInfo(lines) ==
    LET pss == SelectSeq(lines, LAMBDA l : l.kind = "pss") IN
    IF pss = <<>> THEN [has_total |-> FALSE, total_kb |-> 0]
    ELSE [has_total |-> TRUE, total_kb |-> pss[1].n]

\* one dump parsed by each of the three
ParseMemInfo ==
    /\ \E lines \in MemDumps(MaxMemLines) :
          /\ mem_lines' = lines
          /\ mem_head' = HeadMemoryInfo(lines)
          /\ mem_parent' = ParentMemoryInfo(lines)
          /\ mem_app' = AppMemoryInfo(lines)
    /\ fresh' = "get_memory_info"
    /\ UNCHANGED <<coreVars, mwVars, pkVars, rsVars, duVars, spVars, tmVars, lateVars>>

(***************************************************************************)
(* The adb resolver: ADBUtils.find_adb (HEAD) and _verify_adb_path.        *)
(***************************************************************************)
\* a machine: adb is on PATH or not, the `where` program exists or not, the
\* bundled adb_tools\adb.exe exists or not, ANDROID_HOME and ANDROID_SDK_ROOT
\* are unset, set to a directory without platform-tools/adb, or to one with it
SdkVar == {"unset", "no adb", "adb"}
Machines == [on_path : BOOLEAN, has_where : BOOLEAN, bundled : BOOLEAN,
             home : SdkVar, sdk : SdkVar]

NoPath == "None"
DefaultPath == "adb"
BundledPath == "adb_tools/adb.exe"
WherePath == "where adb: first line"
HomePath == "$ANDROID_HOME/platform-tools/adb"
SdkRootPath == "$ANDROID_SDK_ROOT/platform-tools/adb"

\* ADBUtils.find_adb: the bundled copy, then `where adb`; any exception of
\* the subprocess is caught
FindAdb(m) ==
    IF m.bundled THEN BundledPath
    ELSE IF m.has_where /\ m.on_path THEN WherePath
    ELSE NoPath

\* a variant that returns without raising when nothing is found
VerifyAdbPath_KeepDefault(m, path) ==
    IF ~m.on_path /\ m.home = "adb" THEN [raised |-> "", path |-> HomePath]
    ELSE IF ~m.on_path /\ m.sdk = "adb" THEN [raised |-> "", path |-> SdkRootPath]
    ELSE [raised |-> "", path |-> path]

\* ADBUtils._verify_adb_path with self.adb_path = path: what it raises and
\* the adb_path it leaves
VerifyAdbPath(m, path) ==
    IF m.on_path THEN [raised |-> "", path |-> path]
    ELSE IF m.home = "adb" THEN [raised |-> "", path |-> HomePath]
    ELSE IF m.sdk = "adb" THEN [raised |-> "", path |-> SdkRootPath]
    ELSE [raised |-> "FileNotFoundError", path |-> path]

\* ADBUtils.__init__ (HEAD): self.adb_path = self.find_adb()
ConstructWithFindAdb ==
    /\ \E m \in Machines :
          /\ rs_env' = m
          /\ rs_raised' = ""
          /\ rs_path' = FindAdb(m)
    /\ fresh' = "find_adb"
    /\ UNCHANGED <<coreVars, mwVars, pkVars, memVars, duVars, spVars, tmVars, lateVars>>

\* ADBUtils.__init__ (parent revision): self.adb_path = 'adb', then
\* self._verify_adb_path(); an exception leaves no object to the caller
ConstructWithVerifyAdbPath ==
    /\ \E m \in Machines :
          LET r == VerifyAdbPath(m, DefaultPath) IN
          /\ rs_env' = m
          /\ rs_raised' = r.raised
          /\ rs_path' = r.path
    /\ fresh' = "_verify_adb_path"
    /\ UNCHANGED <<coreVars, mwVars, pkVars, memVars, duVars, spVars, tmVars, lateVars>>

(***************************************************************************)
(* AppUtils: _run_adb_command and the data operations built on it, on an   *)
(* object whose per-package caches are empty.                              *)
(***************************************************************************)
AppOutcomes == {ExitOutcome(0, <<<<"ok">>>>), ExitOutcome(0, <<<<"garbage">>>>),
                ExitOutcome(0, <<>>), ExitOutcome(1, <<>>), OSErrorOutcome}

\* AppUtils._run_adb_command: stdout, or an exception; CalledProcessError is
\* turned into Exception, whatever else subprocess.run raises goes through
AppRunAdbCommand(ready, device, o) ==
    IF ~ready /\ ~device THEN Raised("Exception")
    ELSE CASE o.kind = "exit" /\ o.rc # 0 -> Raised("Exception")
           [] o.kind = "exit" /\ o.rc = 0 -> Returned(TRUE, o.stdout)
           [] o.kind = "oserror" -> Raised("FileNotFoundError")
           [] OTHER -> Raised("Exception")

\* what a data operation hands to its caller
Value(v) == [raised |-> FALSE, exc |-> "", value |-> v]
Escaped(exc) == [raised |-> TRUE, exc |-> exc, value |-> ""]

\* get_installed_apps: every exception ends in `return self._app_cache` or []
DataInstalledApps(in) ==
    LET fallback == IF _app_cache.items # <<>> THEN "cached list" ELSE "[]"
        r == AppRunAdbCommand(in.ready, in.device, in.outs[1]) IN
    IF ~in.device THEN Value(fallback)
    ELSE IF r.raised THEN Value(fallback)
    ELSE IF r.out = <<>> THEN Value("[]")
    ELSE Value("list")

\* get_memory_info: the command and the parsing are inside one try
DataMemoryInfo(in) ==
    LET r == AppRunAdbCommand(in.ready, in.device, in.outs[1]) IN
    IF r.raised THEN Value("None")
    ELSE IF r.out = <<<<"ok">>>> THEN Value("{'total_mb': n}")
    ELSE Value("{}")

\* get_app_analytics: None unless adb_ready, each command inside its own try
DataAppAnalytics(in) ==
    IF ~in.ready THEN Value("None")
    ELSE IF \E i \in 1..2 : AppRunAdbCommand(in.ready, in.device, in.outs[i]).raised
    THEN Value("analytics with defaults")
    ELSE Value("analytics")

\* get_app_details: the handler logs and re-raises; the size command alone
\* is inside a bare `except: pass`
DataAppDetails(in) ==
    LET r == AppRunAdbCommand(in.ready, in.device, in.outs[1])
        du == AppRunAdbCommand(in.ready, in.device, in.outs[2]) IN
    IF r.raised THEN Escaped(r.exc)
    ELSE IF du.raised \/ du.out # <<<<"ok">>>> THEN Value("AppInfo, size 0")
    ELSE Value("AppInfo")

DataOperations ==
    {"get_installed_apps", "get_memory_info", "get_app_analytics", "get_app_details"}
DataInputs == [ready : BOOLEAN, device : BOOLEAN, outs : [1..2 -> AppOutcomes]]

CallDataOperation ==
    /\ \E op \in DataOperations, in \in DataInputs :
          /\ du_op' = op
          /\ du_in' = in
          /\ du_ret' = CASE op = "get_installed_apps" -> DataInstalledApps(in)
                         [] op = "get_memory_info" -> DataMemoryInfo(in)
                         [] op = "get_app_analytics" -> DataAppAnalytics(in)
                         [] OTHER -> DataAppDetails(in)
    /\ fresh' = "data operation"
    /\ UNCHANGED <<coreVars, mwVars, pkVars, memVars, rsVars, spVars, tmVars, lateVars>>

(***************************************************************************)
(* ADBUtils: the waits on its adb subprocesses.                            *)
(***************************************************************************)
\* timeout=None: wait for ever
NoTimeout == 0

\* the methods of ADBUtils that start adb, and the timeout each passes to
\* subprocess.run or to Popen.communicate when its caller names none
SubprocessMethods ==
    {"_run_adb", "run_adb_command", "_run_command", "start_wireless_pairing",
     "pair_wireless_device"}
RunnerTimeout(op) ==
    CASE op = "_run_adb" -> 15
      [] op = "run_adb_command" -> 30
      [] op = "_run_command" -> NoTimeout
      [] op = "start_wireless_pairing" -> NoTimeout
      [] op = "pair_wireless_device" -> NoTimeout

\* the method starts adb and waits for it
StartSubprocess ==
    /\ sp_state # "waiting"
    /\ \E op \in SubprocessMethods, exits \in BOOLEAN :
          /\ sp_op' = op
          /\ sp_exits' = exits
          /\ sp_timeout' = RunnerTimeout(op)
    /\ sp_state' = "waiting"
    /\ sp_elapsed' = 0
    /\ fresh' = "subprocess started"
    /\ UNCHANGED <<coreVars, mwVars, pkVars, memVars, rsVars, duVars, tmVars, lateVars>>

\* a second passes while the method waits
SubprocessWaits ==
    /\ sp_state = "waiting" /\ sp_elapsed < MaxWait
    /\ sp_timeout = NoTimeout \/ sp_elapsed < sp_timeout
    /\ sp_elapsed' = sp_elapsed + 1
    /\ fresh' = "none"
    /\ UNCHANGED <<sp_op, sp_timeout, sp_exits, sp_state>>
    /\ UNCHANGED <<coreVars, mwVars, pkVars, memVars, rsVars, duVars, tmVars, lateVars>>

\* adb exits: subprocess.run or communicate returns
SubprocessExits ==
    /\ sp_state = "waiting" /\ sp_exits
    /\ sp_state' = "returned"
    /\ fresh' = "subprocess exited"
    /\ UNCHANGED <<sp_op, sp_timeout, sp_exits, sp_elapsed>>
    /\ UNCHANGED <<coreVars, mwVars, pkVars, memVars, rsVars, duVars, tmVars, lateVars>>

\* the timeout elapses: TimeoutExpired is raised inside the method
SubprocessTimesOut ==
    /\ sp_state = "waiting" /\ sp_timeout # NoTimeout /\ sp_elapsed >= sp_timeout
    /\ sp_state' = "timed out"
    /\ fresh' = "subprocess timed out"
    /\ UNCHANGED <<sp_op, sp_timeout, sp_exits, sp_elapsed>>
    /\ UNCHANGED <<coreVars, mwVars, pkVars, memVars, rsVars, duVars, tmVars, lateVars>>

(***************************************************************************)
(* The periodic timers of MainWindow and AppTab, and closeEvent.           *)
(***************************************************************************)
Timers ==
    {"MainWindow.update_timer", "MainWindow.refresh_timer", "AppTab.refresh_timer",
     "AppTab.app_refresh_timer", "AppTab.memory_refresh_timer"}

\* MainWindow.__init__: HEAD starts update_timer, the parent revision
\* refresh_timer
OpenMainWindow ==
    /\ tm_rev = "none"
    /\ \E rev \in {"HEAD", "parent"} :
          /\ tm_rev' = rev
          /\ tm_active' = tm_active \cup
                (IF rev = "HEAD" THEN {"MainWindow.update_timer"}
                 ELSE {"MainWindow.refresh_timer"})
    /\ fresh' = "MainWindow.__init__"
    /\ UNCHANGED <<tm_closed, tm_fired, tm_late>>
    /\ UNCHANGED <<coreVars, mwVars, pkVars, memVars, rsVars, duVars, spVars, lateVars>>

\* AppTab.setup_refresh_timers, from __init__ or from the auto-refresh box:
\* one definition starts app_refresh_timer and memory_refresh_timer, the
\* other restarts refresh_timer
SetupRefreshTimers ==
    /\ tm_rev # "none" /\ ~tm_closed
    /\ \E two \in BOOLEAN :
          tm_active' = tm_active \cup
             (IF two THEN {"AppTab.app_refresh_timer", "AppTab.memory_refresh_timer"}
              ELSE {"AppTab.refresh_timer"})
    /\ fresh' = "setup_refresh_timers"
    /\ UNCHANGED <<tm_rev, tm_closed, tm_fired, tm_late>>
    /\ UNCHANGED <<coreVars, mwVars, pkVars, memVars, rsVars, duVars, spVars, lateVars>>

\* AppTab.stop_refresh_timers, from the auto-refresh box
StopRefreshTimers ==
    /\ tm_rev # "none" /\ ~tm_closed
    /\ tm_active' = tm_active \ {"AppTab.refresh_timer"}
    /\ fresh' = "stop_refresh_timers"
    /\ UNCHANGED <<tm_rev, tm_closed, tm_fired, tm_late>>
    /\ UNCHANGED <<coreVars, mwVars, pkVars, memVars, rsVars, duVars, spVars, lateVars>>

\* an active timer fires
TimerFires ==
    /\ \E t \in tm_active :
          /\ tm_fired[t] < MaxFires
          /\ tm_fired' = [tm_fired EXCEPT ![t] = @ + 1]
          /\ tm_late' = IF tm_closed THEN tm_late \cup {t} ELSE tm_late
    /\ fresh' = "timeout"
    /\ UNCHANGED <<tm_rev, tm_active, tm_closed>>
    /\ UNCHANGED <<coreVars, mwVars, pkVars, memVars, rsVars, duVars, spVars, lateVars>>

\* MainWindow.closeEvent: update_timer.stop() (an AttributeError in the
\* revision without update_timer, caught), the cleanup() of the tabs, which
\* stops no timer, kill_server(), event.accept()
CloseEvent ==
    /\ tm_rev # "none" /\ ~tm_closed
    /\ tm_active' = tm_active \ {"MainWindow.update_timer"}
    /\ tm_closed' = TRUE
    /\ fresh' = "closeEvent"
    /\ UNCHANGED <<tm_rev, tm_fired, tm_late>>
    /\ UNCHANGED <<coreVars, mwVars, pkVars, memVars, rsVars, duVars, spVars, lateVars>>

(***************************************************************************)
(* Package enumeration with the per-package detail commands.               *)
(***************************************************************************)
\* the outcome of the `dumpsys package <package>` (and `ls -l`) commands of one
\* package: <<<<"ok">>>> stands for output that holds every field looked for
DetailOutcomes == {ExitOutcome(0, <<<<"ok">>>>), ExitOutcome(1, <<>>), ErrorOutcome}
DetailFound(out) == out = <<<<"ok">>>>

\* the label the device reports for a package
AppLabel(package) ==
    CASE package = "com.example.app" -> "Example App"
      [] package = "com.android.calendar" -> "Calendar"
      [] OTHER -> "Label"
\* package.split('.')[-1].title()
TitleOfLastPart(package) ==
    CASE package = "com.example.app" -> "App"
      [] package = "com.android.calendar" -> "Calendar"
      [] OTHER -> "Base"

\* ADBUtils.get_installed_apps: the loop over the listing from line i on; each
\* of the four _run_adb calls of a package returns (False, message) on failure
\* and leaves its field at None, the name at the package
RECURSIVE EnumInstalledApps(_, _, _, _)
EnumInstalledApps(lines, outs, system_apps, i) ==
    IF i > Len(lines) THEN <<>>
    ELSE LET line == lines[i]
             rest == EnumInstalledApps(lines, outs, system_apps, i + 1) IN
         IF ~AdbLineMatches(line) THEN rest
         ELSE LET path == line.fields[1]
                  package == JoinEq(Tail(line.fields))
                  system == HasSub(path, "/system/")
                  got == RunAdb(Always(outs[i]))
                  found == ~got.raised /\ got.ok /\ DetailFound(got.out) IN
              IF got.raised \/ (~system_apps /\ system) THEN rest
              ELSE <<[at |-> i, package |-> package, path |-> path,
                      name |-> IF found THEN AppLabel(package) ELSE package,
                      sdk |-> IF found THEN "33" ELSE "None",
                      cpu_abi |-> IF found THEN "arm64-v8a" ELSE "None",
                      install_time |-> IF found THEN "2024-01-01" ELSE "None"]>> \o rest

\* AppUtils._get_app_name(package): None when the command raises or no pattern
\* matches, and when the label is the package itself
GetAppName(package, o) ==
    LET r == AppRunAdbCommand(TRUE, TRUE, o) IN
    IF r.raised \/ ~DetailFound(r.out) \/ AppLabel(package) = package THEN "None"
    ELSE AppLabel(package)

\* AppUtils.get_installed_apps: the loop over the listing from line i on
RECURSIVE EnumAppApps(_, _, _)
EnumAppApps(lines, outs, i) ==
    IF i > Len(lines) THEN <<>>
    ELSE LET line == lines[i]
             rest == EnumAppApps(lines, outs, i + 1) IN
         IF ~AppLineMatches(line) THEN rest
         ELSE LET package == line.fields[2]
                  name == GetAppName(package, outs[i]) IN
              <<[at |-> i, package |-> package, path |-> line.fields[1],
                 name |-> IF name = "None" THEN TitleOfLastPart(package) ELSE name]>>
              \o rest

\* ADBUtils.get_installed_packages: the loop over the listing from line i on;
\* _run_command returns (1, "", message) for every exception, the return code
\* is not looked at, and status is assigned on every path
RECURSIVE EnumInstalledPackages(_, _, _)
EnumInstalledPackages(lines, outs, i) ==
    IF i > Len(lines) THEN <<>>
    ELSE LET line == lines[i]
             rest == EnumInstalledPackages(lines, outs, i + 1) IN
         IF ~PkgLineMatches(line) THEN rest
         ELSE LET r == RunCommand(TRUE, outs[i])
                  dump_out == IF outs[i].kind = "exit" THEN r.out ELSE <<>>
                  size_out == dump_out IN
              <<[at |-> i, package |-> Last(line.fields),
                 path |-> JoinEq(Front(line.fields)),
                 version |-> IF DetailFound(dump_out) THEN "1.0" ELSE "Unknown",
                 size |-> IF DetailFound(size_out) THEN "1.2 MB" ELSE "0 B",
                 status |-> IF HasSub(JoinEq(Front(line.fields)), "/system/")
                               /\ DetailFound(dump_out)
                            THEN "System" ELSE "User"]>> \o rest

\* one listing enumerated by each of the three
EnumeratePackages ==
    /\ \E lines \in PkgLineLists(MaxEnumLines), system_apps \in BOOLEAN :
          \E outs \in [1..Len(lines) -> DetailOutcomes] :
             /\ en_lines' = lines
             /\ en_outs' = outs
             /\ en_system' = system_apps
             /\ en_adb' = EnumInstalledApps(lines, outs, system_apps, 1)
             /\ en_app' = EnumAppApps(lines, outs, 1)
             /\ en_pkg' = EnumInstalledPackages(lines, outs, 1)
    /\ fresh' = "enumerate packages"
    /\ UNCHANGED NotLateEnum

(***************************************************************************)
(* ADBUtils.get_app_analytics, command by command.                         *)
(***************************************************************************)
\* def _run_adb(self, args, timeout=15), behind @retry(tries=3, ...)
RunAdbParameters == {"args", "timeout"}

\* self._run_adb(args, **keywords): a keyword the function does not have is a
\* TypeError at every attempt, which retry raises after the last one
CallRunAdbWith(keywords, outs) ==
    IF keywords \subseteq RunAdbParameters THEN RunAdb(outs)
    ELSE [Raised("TypeError") EXCEPT !.attempts = RetryTries]

\* the adb commands of get_app_analytics, in the order of the code, and the
\* keys each stores when it succeeds and its output parses
AnalyticsQueries == <<"top", "meminfo", "batterystats", "netstats", "du">>
MetricsOf(query) ==
    CASE query = "top" -> {"cpu"}
      [] query = "meminfo" -> {"memory"}
      [] query = "batterystats" -> {"battery"}
      [] query = "netstats" -> {"rx_bytes", "tx_bytes"}
      [] OTHER -> {"disk_usage"}
\* the keyword arguments the call of each command passes besides args
KeywordsOf(query) == IF query \in {"top", "du"} THEN {"args", "use_shell"} ELSE {"args"}

QueryOutcomes == {ExitOutcome(0, <<<<"ok">>>>), ExitOutcome(1, <<>>)}
NoSnapshot == [found |-> FALSE, metrics |-> {}]

\* the body after the device check, from command i on: one try around all of
\* them, `except Exception: return None`
RECURSIVE AnalyticsFrom(_, _, _)
AnalyticsFrom(q, i, analytics) ==
    IF i > Len(AnalyticsQueries) THEN [found |-> TRUE, metrics |-> analytics]
    ELSE LET query == AnalyticsQueries[i]
             r == CallRunAdbWith(KeywordsOf(query), Always(q[i])) IN
         IF r.raised THEN NoSnapshot
         ELSE AnalyticsFrom(q, i + 1,
                            IF r.ok /\ DetailFound(r.out)
                            THEN analytics \cup MetricsOf(query) ELSE analytics)

\* ADBUtils.get_app_analytics(package)
CallGetAppAnalytics ==
    /\ DeviceStateCall
    /\ an_ready' = (AdbReadyNow /\ ~DeviceCacheHit)
    /\ \E q \in [1..Len(AnalyticsQueries) -> QueryOutcomes] :
          /\ an_q' = q
          /\ an_ret' = IF ~DeviceStateNow.ok THEN NoSnapshot
                       ELSE AnalyticsFrom(q, 1, {})
    /\ fresh' = "get_app_analytics"
    /\ UNCHANGED <<coreNotDs, midVars, OtherLateAn>>

(***************************************************************************)
(* NetworkScanDialog.start_scan: the LAN scan (spec 4.4; its code is not   *)
(* in the source tree, only the QTimer.singleShot(100, self.start_scan) of *)
(* the constructor is).  Probe threads are counted, not told apart.        *)
(***************************************************************************)
\* a variant that starts a probe for every host at once
CanSpawn_NoCeiling(alive) == TRUE
\* a probe thread is started only below the ceiling
CanSpawn(alive) == alive < ThreadCap

\* the timer fires: the subnets are expanded to their host addresses
StartScan ==
    /\ sc_state = "idle"
    /\ \E n \in 0..MaxHosts : sc_hosts' = n
    /\ sc_state' = "scanning"
    /\ sc_spawned' = 0 /\ sc_alive' = 0
    /\ fresh' = "start_scan"
    /\ UNCHANGED NotLateScan

\* the next host address gets its probe thread
SpawnProbe ==
    /\ sc_state = "scanning" /\ sc_spawned < sc_hosts
    /\ CanSpawn(sc_alive)
    /\ sc_spawned' = sc_spawned + 1
    /\ sc_alive' = sc_alive + 1
    /\ fresh' = "spawn probe"
    /\ UNCHANGED <<sc_state, sc_hosts>>
    /\ UNCHANGED NotLateScan

\* a probe ends: the connect timed out, or the device answered
ProbeEnds ==
    /\ sc_alive > 0
    /\ sc_alive' = sc_alive - 1
    /\ fresh' = "probe ends"
    /\ UNCHANGED <<sc_state, sc_hosts, sc_spawned>>
    /\ UNCHANGED NotLateScan

\* every host has its thread: the scan joins them
HostsExhausted ==
    /\ sc_state = "scanning" /\ sc_spawned = sc_hosts
    /\ sc_state' = "joining"
    /\ fresh' = "join"
    /\ UNCHANGED <<sc_hosts, sc_spawned, sc_alive>>
    /\ UNCHANGED NotLateScan

\* the last join returns: the results are handed over
ScanReturns ==
    /\ sc_state = "joining" /\ sc_alive = 0
    /\ sc_state' = "done"
    /\ fresh' = "scan done"
    /\ UNCHANGED <<sc_hosts, sc_spawned, sc_alive>>
    /\ UNCHANGED NotLateScan

(***************************************************************************)
(* WirelessHandlerWidget and src/workers: every worker, signal and slot.   *)
(* The slots of the widget run on the UI thread, one queued delivery at a  *)
(* time; Worker.run runs on the worker's QThread.                          *)
(***************************************************************************)
Operations == {"refresh", "tcpip", "connect", "disconnect"}
ButtonOf(op) ==
    CASE op = "refresh" -> "refreshButton"
      [] op = "tcpip" -> "tcpipButton"
      [] op = "connect" -> "connectButton"
      [] OTHER -> "disconnectButton"
\* what the function of an operation can return: get_devices a list, the
\* others a bool
ReturnValues(op) == IF op = "refresh" THEN {"[]", "[device]"} ELSE {"True", "False"}
\* the function returns a value or raises an Exception
FunctionOutcomes(op) ==
    {[returned |-> TRUE, value |-> v] : v \in ReturnValues(op)}
       \cup {[returned |-> FALSE, value |-> ""]}
Truthy(value) == value \in {"[device]", "True"}
Iterable(value) == value \in {"[]", "[device]"}

\* a variant of Worker.run without the finally clause
RunSignals_NoFinally(returned) ==
    IF returned THEN <<"result", "finished">> ELSE <<"error">>
\* Worker.run: the signals of one run, in the order of emission
RunSignals(returned) ==
    IF returned THEN <<"result", "finished">> ELSE <<"error", "finished">>

Delivery(slot, w, value) == [slot |-> slot, w |-> w, value |-> value]
NewWorker(op) ==
    [op |-> op, at |-> 0, cleanup |-> FALSE, signals |-> <<>>, returned |-> FALSE,
     value |-> ""]

\* the workers of tcpip, connect and disconnect whose completion handler, which
\* starts a refresh, has not run yet
Reserved ==
    Cardinality({w \in 1..Len(hw_workers) :
                    /\ hw_workers[w].op # "refresh"
                    /\ \/ hw_workers[w].at < Len(RunSignals(TRUE))
                       \/ \E i \in 1..Len(hw_queue) :
                             hw_queue[i].slot = "complete" /\ hw_queue[i].w = w})

\* _start_worker up to thread.start(): create_thread_worker, the connections
\* of the callback, handle_worker_error and handle_worker_result, the start
BeginStartWorker(op) ==
    /\ hw_workers' = Append(hw_workers, NewWorker(op))
    /\ hw_ui' = Len(hw_workers) + 1

\* start_device_refresh
WhStartDeviceRefresh(enabled) ==
    /\ hw_enabled' = enabled \ {"refreshButton"}
    /\ BeginStartWorker("refresh")

\* WirelessHandlerWidget.__init__: _setup_ui, then start_device_refresh
ConstructWidget ==
    /\ ~hw_built
    /\ hw_built' = TRUE
    /\ WhStartDeviceRefresh({ButtonOf(op) : op \in Operations})
    /\ fresh' = "WirelessHandlerWidget"
    /\ UNCHANGED <<hw_active, hw_queue, hw_last, hw_report, hw_items>>
    /\ UNCHANGED NotLateHandler

\* a click on an enabled button: start_device_refresh, on_enable_tcpip_clicked,
\* on_connect_clicked, on_disconnect_clicked with valid input (an address
\* typed, a device selected in the list)
ClickButton ==
    /\ hw_built /\ hw_ui = 0
    /\ \E op \in Operations :
          /\ ButtonOf(op) \in hw_enabled
          /\ op \in {"tcpip", "disconnect"} => hw_items
          /\ Len(hw_workers) + Reserved + (IF op = "refresh" THEN 1 ELSE 2) <= MaxWorkers
          /\ hw_enabled' = hw_enabled \ {ButtonOf(op)}
          /\ BeginStartWorker(op)
    /\ fresh' = "click"
    /\ UNCHANGED <<hw_built, hw_active, hw_queue, hw_last, hw_report, hw_items>>
    /\ UNCHANGED NotLateHandler

\* the rest of _start_worker: the append to active_threads and the connection
\* of the cleanup lambda to finished
FinishStartWorker ==
    /\ hw_ui # 0
    /\ hw_active' = hw_active \cup {hw_ui}
    /\ hw_workers' = [hw_workers EXCEPT ![hw_ui].cleanup = TRUE]
    /\ hw_ui' = 0
    /\ fresh' = "_start_worker"
    /\ UNCHANGED <<hw_built, hw_queue, hw_last, hw_enabled, hw_report, hw_items>>
    /\ UNCHANGED NotLateHandler

\* Worker.run, first signal: the function returns and result is emitted, or
\* it raises and error is emitted; both slots are queued to the UI thread
WorkerRunsFunction ==
    /\ \E w \in 1..Len(hw_workers) :
          /\ hw_workers[w].at = 0
          /\ \E returned \in BOOLEAN, value \in ReturnValues(hw_workers[w].op) :
                LET signal == RunSignals(returned)[1] IN
                /\ hw_workers' = [hw_workers EXCEPT ![w].at = 1,
                                                    ![w].returned = returned,
                                                    ![w].value = IF returned THEN value ELSE "",
                                                    ![w].signals = <<signal>>]
                /\ (~returned) => value = CHOOSE v \in ReturnValues(hw_workers[w].op) : TRUE
                /\ hw_queue' = Append(hw_queue,
                                      IF returned
                                      THEN Delivery("handle_worker_result", w, value)
                                      ELSE Delivery("handle_worker_error", w, ""))
    /\ fresh' = "Worker.run"
    /\ UNCHANGED <<hw_built, hw_active, hw_last, hw_enabled, hw_ui, hw_report, hw_items>>
    /\ UNCHANGED NotLateHandler

\* Worker.run, the signals after the first: finished reaches the slots that
\* are connected when it is emitted: the callback (queued to the UI thread)
\* and, once connected, the cleanup lambda, which removes the pair
WorkerEmitsNext ==
    /\ \E w \in 1..Len(hw_workers) :
          LET wk == hw_workers[w]
              signals == RunSignals(wk.returned) IN
          /\ wk.at >= 1 /\ wk.at < Len(signals)
          /\ hw_workers' = [hw_workers EXCEPT ![w].at = wk.at + 1,
                                              ![w].signals = Append(wk.signals,
                                                                    signals[wk.at + 1])]
          /\ IF signals[wk.at + 1] = "finished"
             THEN /\ hw_queue' = Append(hw_queue, Delivery("complete", w, ""))
                  /\ hw_active' = IF wk.cleanup THEN hw_active \ {w} ELSE hw_active
             ELSE UNCHANGED <<hw_queue, hw_active>>
    /\ fresh' = "Worker.run"
    /\ UNCHANGED <<hw_built, hw_last, hw_enabled, hw_ui, hw_report, hw_items>>
    /\ UNCHANGED NotLateHandler

\* handle_worker_result
WhHandleWorkerResult ==
    /\ hw_ui = 0 /\ hw_queue # <<>> /\ Head(hw_queue).slot = "handle_worker_result"
    /\ hw_last' = [set |-> TRUE, value |-> Head(hw_queue).value, by |-> Head(hw_queue).w]
    /\ hw_queue' = Tail(hw_queue)
    /\ fresh' = "handle_worker_result"
    /\ UNCHANGED <<hw_built, hw_workers, hw_active, hw_enabled, hw_ui, hw_report, hw_items>>
    /\ UNCHANGED NotLateHandler

\* handle_worker_error: the status label and a message box
WhHandleWorkerError ==
    /\ hw_ui = 0 /\ hw_queue # <<>> /\ Head(hw_queue).slot = "handle_worker_error"
    /\ hw_queue' = Tail(hw_queue)
    /\ fresh' = "handle_worker_error"
    /\ UNCHANGED <<hw_built, hw_workers, hw_active, hw_last, hw_enabled, hw_ui, hw_report,
                   hw_items>>
    /\ UNCHANGED NotLateHandler

\* getattr(self, '_last_result', default)
LastResult(default) == IF hw_last.set THEN hw_last.value ELSE default
UsedWorker == IF hw_last.set THEN hw_last.by ELSE 0

\* handle_device_refresh_complete: the list is cleared and filled again;
\* `for device in devices` raises TypeError on a bool, before the button is
\* enabled again
WhHandleDeviceRefreshComplete ==
    /\ hw_ui = 0 /\ hw_queue # <<>> /\ Head(hw_queue).slot = "complete"
    /\ hw_workers[Head(hw_queue).w].op = "refresh"
    /\ hw_queue' = Tail(hw_queue)
    /\ hw_report' = [w |-> Head(hw_queue).w, success |-> FALSE, used |-> UsedWorker,
                     raised |-> ~Iterable(LastResult("[]"))]
    /\ hw_enabled' = IF Iterable(LastResult("[]")) THEN hw_enabled \cup {"refreshButton"}
                     ELSE hw_enabled
    /\ hw_items' = (LastResult("[]") = "[device]")
    /\ fresh' = "handle_device_refresh_complete"
    /\ UNCHANGED <<hw_built, hw_workers, hw_active, hw_last, hw_ui>>
    /\ UNCHANGED NotLateHandler

\* handle_tcpip_complete, handle_connect_complete, handle_disconnect_complete:
\* the button, the report of success or failure, start_device_refresh
WhHandleOperationComplete ==
    /\ hw_ui = 0 /\ hw_queue # <<>> /\ Head(hw_queue).slot = "complete"
    /\ hw_workers[Head(hw_queue).w].op # "refresh"
    /\ hw_queue' = Tail(hw_queue)
    /\ hw_report' = [w |-> Head(hw_queue).w, success |-> Truthy(LastResult("False")),
                     used |-> UsedWorker, raised |-> FALSE]
    /\ WhStartDeviceRefresh(hw_enabled \cup {ButtonOf(hw_workers[Head(hw_queue).w].op)})
    /\ fresh' = "handle_operation_complete"
    /\ UNCHANGED <<hw_built, hw_active, hw_last, hw_items>>
    /\ UNCHANGED NotLateHandler

(***************************************************************************)
(* The readiness checks that list the devices themselves:                  *)
(* ADBUtils.check_adb_status (adb_ready returns its result) and            *)
(* EnhancedAppUtils._verify_device.                                        *)
(***************************************************************************)
\* ADBUtils.check_adb_status: the listing is filtered to state `device`
\* before it is counted
AdbCheckAdbStatus ==
    /\ LET devices == GetConnectedDevices(AdbDevicesLong)
           connected_devices == SelectSeq(devices, LAMBDA d : d.state = "device")
       IN ag_status' = IF devices = <<>> THEN FALSE
                       ELSE IF connected_devices = <<>> THEN FALSE
                       ELSE IF Len(connected_devices) > 1 THEN FALSE
                       ELSE TRUE
    /\ fresh' = "ADBUtils.check_adb_status"
    /\ UNCHANGED <<ag_verify>>
    /\ UNCHANGED NotLateAgree

\* EnhancedAppUtils._verify_device: the same tests on
\* adb_utils.get_connected_devices()
EnhancedVerifyDevice ==
    /\ LET devices == GetConnectedDevices(AdbDevicesLong)
           connected_devices == SelectSeq(devices, LAMBDA d : d.state = "device")
       IN ag_verify' = IF devices = <<>> THEN FALSE
                       ELSE IF connected_devices = <<>> THEN FALSE
                       ELSE IF Len(connected_devices) > 1 THEN FALSE
                       ELSE TRUE
    /\ fresh' = "EnhancedAppUtils._verify_device"
    /\ UNCHANGED <<ag_status>>
    /\ UNCHANGED NotLateAgree

(***************************************************************************)
(* DebugLogger: log_operation queues an entry, the queue thread appends it *)
(* to entries and calls the listeners while it holds _lock, a              *)
(* threading.Lock.  A listener is named by the logger method it calls.     *)
(***************************************************************************)
max_entries == 1000
ShutdownSignal == 0
ListenerKinds == {"nothing", "get_entries", "add_listener", "remove_listener", "clear"}
\* get_entries, add_listener, remove_listener and clear all start with
\* `with self._lock:`
TakesLock(kind) == kind # "nothing"
InList(l, x) == \E i \in 1..Len(l) : l[i] = x

\* add_listener, called on another thread than the queue thread
AddListener ==
    /\ lg_lock = "none"
    /\ \E listener \in ListenerKinds :
          /\ ~InList(lg_listeners, listener)
          /\ Len(lg_listeners) < MaxListeners
          /\ lg_listeners' = Append(lg_listeners, listener)
    /\ fresh' = "add_listener"
    /\ UNCHANGED <<lg_queue, lg_entries, lg_lock, lg_pc, lg_cur, lg_i, lg_next, lg_before, lg_shut>>
    /\ UNCHANGED NotLateLogger

\* remove_listener, called on another thread than the queue thread
RemoveListener ==
    /\ lg_lock = "none"
    /\ \E listener \in ListenerKinds :
          /\ InList(lg_listeners, listener)
          /\ lg_listeners' = SelectSeq(lg_listeners, LAMBDA l : l # listener)
    /\ fresh' = "remove_listener"
    /\ UNCHANGED <<lg_queue, lg_entries, lg_lock, lg_pc, lg_cur, lg_i, lg_next, lg_before, lg_shut>>
    /\ UNCHANGED NotLateLogger

\* log_operation: entry_queue.put(entry)
LogOperation ==
    /\ lg_next <= MaxEntries
    /\ lg_queue' = Append(lg_queue, lg_next)
    /\ lg_next' = lg_next + 1
    /\ lg_before' = IF lg_shut THEN lg_before ELSE lg_before \cup {lg_next}
    /\ fresh' = "log_operation"
    /\ UNCHANGED <<lg_entries, lg_listeners, lg_lock, lg_pc, lg_cur, lg_i, lg_shut>>
    /\ UNCHANGED NotLateLogger

\* shutdown: entry_queue.put(None); the join gives up after a second
LoggerShutdown ==
    /\ ~lg_shut
    /\ lg_queue' = Append(lg_queue, ShutdownSignal)
    /\ lg_shut' = TRUE
    /\ fresh' = "shutdown"
    /\ UNCHANGED <<lg_entries, lg_listeners, lg_lock, lg_pc, lg_cur, lg_i, lg_next, lg_before>>
    /\ UNCHANGED NotLateLogger

\* process_queue: entry = self.entry_queue.get(); None ends the loop
ProcessorGets ==
    /\ lg_pc = "get"
    /\ lg_queue # <<>>
    /\ lg_cur' = Head(lg_queue)
    /\ lg_queue' = Tail(lg_queue)
    /\ lg_pc' = IF Head(lg_queue) = ShutdownSignal THEN "done" ELSE "acquire"
    /\ fresh' = "process_queue"
    /\ UNCHANGED <<lg_entries, lg_listeners, lg_lock, lg_i, lg_next, lg_before, lg_shut>>
    /\ UNCHANGED NotLateLogger

\* process_queue: `with self._lock:` and the append
ProcessorAppends ==
    /\ lg_pc = "acquire"
    /\ lg_lock = "none"
    /\ lg_lock' = "queue_thread"
    /\ lg_entries' = LET appended == Append(lg_entries, lg_cur) IN
                     IF Len(appended) > max_entries THEN Tail(appended) ELSE appended
    /\ lg_i' = 1
    /\ lg_pc' = "notify"
    /\ fresh' = "process_queue"
    /\ UNCHANGED <<lg_queue, lg_listeners, lg_cur, lg_next, lg_before, lg_shut>>
    /\ UNCHANGED NotLateLogger

\* process_queue: listener(entry), inside the `with`; a listener that calls
\* a method of the logger waits there for _lock, which is not reentrant
ProcessorNotifies ==
    /\ lg_pc = "notify"
    /\ lg_i <= Len(lg_listeners)
    /\ IF TakesLock(lg_listeners[lg_i]) /\ lg_lock # "none"
       THEN lg_pc' = "blocked" /\ UNCHANGED lg_i
       ELSE lg_i' = lg_i + 1 /\ UNCHANGED lg_pc
    /\ fresh' = "process_queue"
    /\ UNCHANGED <<lg_queue, lg_entries, lg_listeners, lg_lock, lg_cur, lg_next, lg_before, lg_shut>>
    /\ UNCHANGED NotLateLogger

\* process_queue: the end of the `with` and the next turn of the loop
ProcessorReleases ==
    /\ lg_pc = "notify"
    /\ lg_i > Len(lg_listeners)
    /\ lg_lock' = "none"
    /\ lg_pc' = "get"
    /\ fresh' = "process_queue"
    /\ UNCHANGED <<lg_queue, lg_entries, lg_listeners, lg_cur, lg_i, lg_next, lg_before, lg_shut>>
    /\ UNCHANGED NotLateLogger

(***************************************************************************)
(* The environment.                                                        *)
(***************************************************************************)
Stale == fresh' = "none"

\* a device is plugged in (or paired)
Plug ==
    /\ Len(devs) < MaxDevices
    /\ \E d \in DeviceRecs :
          /\ \A i \in 1..Len(devs) : devs[i].id # d.id
          /\ devs' = Append(devs, d)
    /\ Stale
    /\ UNCHANGED <<adb_up, now, pkgs, shell_up>>
    /\ UNCHANGED NotEnv

\* a device goes away
Unplug ==
    /\ \E i \in 1..Len(devs) :
          devs' = SubSeq(devs, 1, i - 1) \o SubSeq(devs, i + 1, Len(devs))
    /\ Stale
    /\ UNCHANGED <<adb_up, now, pkgs, shell_up>>
    /\ UNCHANGED NotEnv

\* the adb server stops or starts answering
ToggleAdb ==
    /\ adb_up' = ~adb_up
    /\ Stale
    /\ UNCHANGED <<devs, now, pkgs, shell_up>>
    /\ UNCHANGED NotEnv

\* a second passes
Tick ==
    /\ now < Epoch + MaxTime
    /\ now' = now + 1
    /\ Stale
    /\ UNCHANGED <<devs, adb_up, pkgs, shell_up>>
    /\ UNCHANGED NotEnv

\* a device in the `device` state is attached
PlugReady ==
    /\ Len(devs) < MaxDevices
    /\ \E id \in {"emulator-5554", "192.168.1.5:5555"} :
          /\ \A i \in 1..Len(devs) : devs[i].id # id
          /\ Len(devs) = 0 => id = "emulator-5554"
          /\ devs' = Append(devs, [id |-> id, state |-> "device"])
    /\ Stale
    /\ UNCHANGED <<adb_up, now, pkgs, shell_up>>
    /\ UNCHANGED NotEnv

\* the last attached device goes away
UnplugLast ==
    /\ devs # <<>>
    /\ devs' = SubSeq(devs, 1, Len(devs) - 1)
    /\ Stale
    /\ UNCHANGED <<adb_up, now, pkgs, shell_up>>
    /\ UNCHANGED NotEnv

\* `adb shell` starts or stops failing
ToggleShell ==
    /\ shell_up' = ~shell_up
    /\ Stale
    /\ UNCHANGED <<devs, adb_up, now, pkgs>>
    /\ UNCHANGED NotEnv

\* packages are installed or removed
SetPackages ==
    /\ \E l \in PkgListings : l # pkgs /\ pkgs' = l
    /\ Stale
    /\ UNCHANGED <<devs, adb_up, now, shell_up>>
    /\ UNCHANGED NotEnv

\* nothing happens for a while
Idle ==
    /\ now <= Epoch + MaxTime
    /\ now' = now + IdleSeconds
    /\ Stale
    /\ UNCHANGED <<devs, adb_up, pkgs, shell_up>>
    /\ UNCHANGED NotEnv

(***************************************************************************)
(* get_connected_devices on given text.                                    *)
(***************************************************************************)
\* well-formed output: the header and one line per device, with or without details
ParseWellFormed ==
    /\ \E l \in DeviceLists(MaxLines), long \in BOOLEAN :
          /\ p_src' = l
          /\ p_in' = Returned(TRUE, DevicesOutput(l, long))
          /\ p_out' = GetConnectedDevices(Returned(TRUE, DevicesOutput(l, long)))
    /\ p_wf' = TRUE
    /\ fresh' = "get_connected_devices"
    /\ UNCHANGED NotParse

RawLines == {BlankLine, HeaderLine, DaemonLine, <<"emulator-5554">>,
             <<"emulator-5554", "device">>, <<"mydevice01", "offline", "usb:1-1">>}

RECURSIVE RawTexts(_)
RawTexts(n) ==
    IF n = 0 THEN {<<>>}
    ELSE LET shorter == RawTexts(n - 1) IN
         shorter \cup {Append(t, l) : t \in {x \in shorter : Len(x) = n - 1}, l \in RawLines}

\* any other output, and a failed command
ParseRaw ==
    /\ \E ok \in BOOLEAN, t \in RawTexts(MaxLines + 1) :
          /\ p_in' = Returned(ok, t)
          /\ p_out' = GetConnectedDevices(Returned(ok, t))
    /\ p_src' = <<>>
    /\ p_wf' = FALSE
    /\ fresh' = "get_connected_devices"
    /\ UNCHANGED NotParse

(***************************************************************************)
(* Initial state and specifications.                                       *)
(***************************************************************************)
Init ==
    /\ devs = <<>>
    /\ adb_up = TRUE
    /\ now = Epoch
    /\ p_in = Returned(FALSE, <<>>)
    /\ p_src = <<>>
    /\ p_wf = FALSE
    /\ p_out = <<>>
    /\ device_cache = NoResult
    /\ last_device_check = 0
    /\ ds_ret = NoResult
    /\ ds_miss = FALSE
    /\ current_device = NoLine
    /\ vd_ret = FALSE
    /\ vd_prev = NoLine
    /\ fresh = "none"
    /\ r_runner = "none"
    /\ r_path = TRUE
    /\ r_outs = <<>>
    /\ r_ret = Returned(FALSE, <<>>)
    /\ pkgs = <<UserLine>>
    /\ shell_up = TRUE
    /\ app_cache = NoList
    /\ last_app_refresh = 0
    /\ _app_cache = ListObj(1, <<>>)
    /\ _last_app_refresh = 0
    /\ adb_ready = FALSE
    /\ last_check = 0
    /\ ia_force = FALSE
    /\ ia_ret = NoList
    /\ ia_spawned = 0
    /\ next_oid = 2
    /\ q_adb = NoQuery
    /\ q_app = NoQuery
    /\ ia_inwin = FALSE
    /\ ia_expect = NoList
    /\ ia_system = FALSE
    /\ executor_q = <<>>
    /\ ui_events = <<>>
    /\ widget_log = {Mut("statusLabel", "ui"), Mut("refreshButton", "ui")}
    /\ app_list = <<>>
    /\ active_threads = 1
    /\ _last_result = NoAttr
    /\ deviceListWidget = <<>>
    /\ refreshButton = FALSE
    /\ t_pc = [t \in Threads |-> "idle"]
    /\ t_now = [t \in Threads |-> 0]
    /\ t_apps = [t \in Threads |-> NoList]
    /\ t_read = [t \in Threads |-> NoRead]
    /\ stamp_oid = 0
    /\ pair_handler = "start_pairing"
    /\ pair_text = "Start Pairing"
    /\ pair_enabled = TRUE
    /\ connect_enabled = FALSE
    /\ code_input = ""
    /\ status_label = "Enter a 6-digit code to connect"
    /\ dlg_warning = ""
    /\ progress_open = FALSE
    /\ code_shown = FALSE
    /\ pair_cmds = 0
    /\ pair_path = TRUE
    /\ pair_out = OSErrorOutcome
    /\ submitted = FALSE
    /\ mw_dialog = FALSE
    /\ mw_code = NoCode
    /\ mw_box = ""
    /\ devices_text = <<>>
    /\ mw_trace = <<>>
    /\ pk_lines = <<>>
    /\ pk_system = FALSE
    /\ pk_adb = <<>>
    /\ pk_app = <<>>
    /\ pk_pkg = <<>>
    /\ mem_lines = <<>>
    /\ mem_head = HeadMemoryInfo(<<>>)
    /\ mem_parent = ParentMemoryInfo(<<>>)
    /\ mem_app = AppMemoryInfo(<<>>)
    /\ rs_env = [on_path |-> TRUE, has_where |-> TRUE, bundled |-> FALSE,
                 home |-> "unset", sdk |-> "unset"]
    /\ rs_raised = ""
    /\ rs_path = DefaultPath
    /\ du_op = "none"
    /\ du_in = [ready |-> FALSE, device |-> FALSE, outs |-> [i \in 1..2 |-> OSErrorOutcome]]
    /\ du_ret = Value("")
    /\ sp_op = "none"
    /\ sp_timeout = NoTimeout
    /\ sp_exits = TRUE
    /\ sp_state = "idle"
    /\ sp_elapsed = 0
    /\ tm_rev = "none"
    /\ tm_active = {}
    /\ tm_closed = FALSE
    /\ tm_fired = [t \in Timers |-> 0]
    /\ tm_late = {}
    /\ ds_prior = [valid |-> FALSE, time |-> 0, result |-> NoResult]
    /\ ds_inwin = FALSE
    /\ ds_expect = NoResult
    /\ ck_prior = [valid |-> FALSE, time |-> 0]
    /\ ck_inwin = FALSE
    /\ ck_expect = FALSE
    /\ ck_ret = FALSE
    /\ ck_verified = FALSE
    /\ en_lines = <<>>
    /\ en_outs = <<>>
    /\ en_system = FALSE
    /\ en_adb = <<>>
    /\ en_app = <<>>
    /\ en_pkg = <<>>
    /\ an_ready = FALSE
    /\ an_q = <<>>
    /\ an_ret = [found |-> FALSE, metrics |-> {}]
    /\ sc_state = "idle"
    /\ sc_hosts = 0
    /\ sc_spawned = 0
    /\ sc_alive = 0
    /\ hw_built = FALSE
    /\ hw_workers = <<>>
    /\ hw_active = {}
    /\ hw_queue = <<>>
    /\ hw_last = [set |-> FALSE, value |-> "", by |-> 0]
    /\ hw_enabled = {}
    /\ hw_ui = 0
    /\ hw_items = FALSE
    /\ hw_report = [w |-> 0, success |-> FALSE, used |-> 0, raised |-> FALSE]
    /\ ag_status = FALSE
    /\ ag_verify = FALSE
    /\ lg_queue = <<>>
    /\ lg_entries = <<>>
    /\ lg_listeners = <<>>
    /\ lg_lock = "none"
    /\ lg_pc = "get"
    /\ lg_cur = 0
    /\ lg_i = 1
    /\ lg_next = 1
    /\ lg_before = {}
    /\ lg_shut = FALSE

NextParse == ParseWellFormed \/ ParseRaw
SpecParse == Init /\ [][NextParse]_vars

NextDevState == Plug \/ Unplug \/ ToggleAdb \/ Tick \/ GetDeviceState
SpecDevState == Init /\ [][NextDevState]_vars

NextRunner == CallRunAdb \/ CallRunAdbCommand \/ CallRunCommand
SpecRunner == Init /\ [][NextRunner]_vars

NextVerify == Plug \/ Unplug \/ ToggleAdb \/ VerifyDevice
SpecVerify == Init /\ [][NextVerify]_vars

NextAppApps ==
    \/ PlugReady \/ UnplugLast \/ ToggleShell \/ SetPackages \/ Tick \/ Idle
    \/ AppUtilsGetInstalledApps
SpecAppApps == Init /\ [][NextAppApps]_vars

NextAdbApps ==
    \/ PlugReady \/ UnplugLast \/ ToggleShell \/ SetPackages \/ Tick
    \/ GetInstalledApps
SpecAdbApps == Init /\ [][NextAdbApps]_vars

NextAppTab ==
    \/ PlugReady \/ UnplugLast
    \/ TabCheckAdbStatus \/ TabUpdateAnalytics
    \/ RunCheckWorker \/ RunRefreshWorker \/ RunFetchAnalytics \/ TabUpdateNoDeviceUi
    \/ StartDeviceRefresh \/ WorkerRun
    \/ HandleWorkerResult \/ HandleWorkerError \/ HandleDeviceRefreshComplete
SpecAppTab == Init /\ [][NextAppTab]_vars

NextRace ==
    \/ PlugReady \/ UnplugLast \/ Tick
    \/ \E t \in Threads :
          AppsCheckCache(t) \/ AppsQuery(t) \/ AppsStoreList(t) \/ AppsStoreTime(t)
SpecRace == Init /\ [][NextRace]_vars

NextPair ==
    \/ StartPairing \/ DoStartPairing \/ CompletePairing
    \/ EditCode \/ ConnectDevice \/ DisconnectDevice
SpecPair == Init /\ [][NextPair]_vars

NextMainPair ==
    \/ Plug \/ Unplug \/ ToggleAdb
    \/ MainStartPairing \/ PairingDialogAccept \/ PairingDialogReject
    \/ MainRefreshDevices
SpecMainPair == Init /\ [][NextMainPair]_vars

NextPkgParse == ParsePackageListing
SpecPkgParse == Init /\ [][NextPkgParse]_vars

NextMemInfo == ParseMemInfo
SpecMemInfo == Init /\ [][NextMemInfo]_vars

NextResolve == ConstructWithFindAdb \/ ConstructWithVerifyAdbPath
SpecResolve == Init /\ [][NextResolve]_vars

NextData == CallDataOperation
SpecData == Init /\ [][NextData]_vars

NextSubprocess ==
    StartSubprocess \/ SubprocessWaits \/ SubprocessExits \/ SubprocessTimesOut
SpecSubprocess == Init /\ [][NextSubprocess]_vars

NextTimers ==
    OpenMainWindow \/ SetupRefreshTimers \/ StopRefreshTimers \/ TimerFires \/ CloseEvent
SpecTimers == Init /\ [][NextTimers]_vars

NextStatusCache ==
    \/ PlugReady \/ UnplugLast \/ ToggleAdb \/ Tick
    \/ GetDeviceState \/ CheckAdbStatus
SpecStatusCache == Init /\ [][NextStatusCache]_vars

NextReady == PlugReady \/ UnplugLast \/ ToggleAdb \/ Tick \/ CheckAdbStatus
SpecReady == Init /\ [][NextReady]_vars

NextEnum == EnumeratePackages
SpecEnum == Init /\ [][NextEnum]_vars

NextAnalytics == PlugReady \/ UnplugLast \/ ToggleAdb \/ Tick \/ CallGetAppAnalytics
SpecAnalytics == Init /\ [][NextAnalytics]_vars

NextScan == StartScan \/ SpawnProbe \/ ProbeEnds \/ HostsExhausted \/ ScanReturns
SpecScan == Init /\ [][NextScan]_vars

NextHandler ==
    \/ ConstructWidget \/ ClickButton \/ FinishStartWorker
    \/ WorkerRunsFunction \/ WorkerEmitsNext
    \/ WhHandleWorkerResult \/ WhHandleWorkerError
    \/ WhHandleDeviceRefreshComplete \/ WhHandleOperationComplete
SpecHandler == Init /\ [][NextHandler]_vars

NextAgree == Plug \/ Unplug \/ ToggleAdb \/ AdbCheckAdbStatus \/ EnhancedVerifyDevice
SpecAgree == Init /\ [][NextAgree]_vars

NextLogger ==
    \/ AddListener \/ RemoveListener \/ LogOperation \/ LoggerShutdown
    \/ ProcessorGets \/ ProcessorAppends \/ ProcessorNotifies \/ ProcessorReleases
SpecLogger == Init /\ [][NextLogger]_vars
\* the queue thread is a thread of its own: it takes every step it can take
SpecLoggerLive ==
    /\ SpecLogger
    /\ WF_vars(ProcessorGets) /\ WF_vars(ProcessorAppends)
    /\ WF_vars(ProcessorNotifies) /\ WF_vars(ProcessorReleases)

(***************************************************************************)
(* Claims.                                                                 *)
(***************************************************************************)
\* C1: on a cache miss get_device_state succeeds, with that device's id,
\* exactly when exactly one device of the parsed list is in the `device`
\* state; it fails with 'Multiple devices connected' when more than one is,
\* and with a not-ready failure when none is, whatever else is listed.
C1_ClassifiesByReadyDevices ==
    (ds_fresh /\ ds_miss) =>
        LET ready == ReadyOf(GetConnectedDevices(AdbDevicesLong)) IN
        /\ (Len(ready) = 1) <=> ds_ret.ok
        /\ Len(ready) = 1 => ds_ret.id = ready[1].id
        /\ Len(ready) > 1 => ds_ret.kind = "Multiple devices connected"
        /\ Len(ready) = 0 => ds_ret.kind \in {"No devices connected", "Device is not ready"}

C3_ParsesEveryState ==
    p_wf =>
        /\ Len(p_out) = Len(p_src)
        /\ \A i \in 1..Len(p_src) :
              /\ p_out[i].id = p_src[i].id
              /\ p_out[i].id # ""
              /\ p_out[i].state = p_src[i].state

\* C4: after a get_installed_apps call (ADBUtils, window 5 s; AppUtils,
\* window 30 s) that queried the device successfully, whatever list it
\* produced, every further call without force_refresh made before the window
\* has elapsed returns the identical list object and starts no adb subprocess.
C4_CachedWithinWindow ==
    (fresh \in {"ADBUtils.get_installed_apps", "AppUtils.get_installed_apps"} /\ ia_inwin) =>
        (ia_ret.oid = ia_expect.oid /\ ia_spawned = 0)

\* C6: no function executed on a worker thread (an AppTab.executor task, a
\* Worker on a QThread) mutates a GUI widget; every widget mutation is made
\* by the UI thread.
C6_WidgetsMutatedOnUiThread ==
    \A m \in widget_log : m.thread = "ui"

\* C7: under every interleaving of get_installed_apps calls made on one
\* ADBUtils object by the UI thread and an executor thread, a call that is
\* served from the cache sees a list and a last_app_refresh written by one
\* and the same refresh.
C7_ReaderSeesOneRefresh ==
    \A t \in Threads : t_read[t].hit => t_read[t].list = t_read[t].stamp

\* the dialog has reported the pairing and disabled pair_button
Paired == ~pair_enabled

\* C9: in WirelessDialog, along every sequence of clicks, pair_wireless_device
\* is called only by complete_pairing, and only after start_wireless_pairing
\* has returned a code that was displayed; the paired state is entered only
\* by the step of a code submission.
C9_PairingFlowOrder ==
    [][ /\ pair_cmds' # pair_cmds =>
              (code_shown /\ pair_handler = "complete_pairing"
                 /\ fresh' = "complete_pairing" /\ submitted')
        /\ (Paired' /\ ~Paired) =>
              (fresh' = "complete_pairing" /\ submitted' /\ pair_cmds' = pair_cmds + 1) ]_vars

C9_Witness ==
    Paired /\ code_shown /\ pair_cmds = 1 /\ fresh = "complete_pairing"

\* the pair command exited with status 0 and printed 'Successfully paired'
PairSucceeded ==
    /\ pair_path
    /\ pair_out.kind = "exit"
    /\ pair_out.rc = 0
    /\ TextHas(pair_out.stdout, "Successfully paired")

\* C10: a code submission ends in the paired state exactly when the pair
\* command exits with status 0 and its output contains 'Successfully paired';
\* after every other outcome the dialog shows the failure warning, does not
\* report success and leaves pair_button enabled.
C10_PairedIffToolSaysSo ==
    (fresh = "complete_pairing" /\ submitted) =>
        /\ Paired <=> PairSucceeded
        /\ PairSucceeded => status_label = SuccessStatus
        /\ ~PairSucceeded =>
              /\ status_label # SuccessStatus
              /\ pair_enabled
              /\ dlg_warning = "Pairing failed. Please try again."

C10_Witness ==
    /\ fresh = "complete_pairing" /\ submitted
    /\ pair_path /\ pair_out.kind = "exit" /\ pair_out.rc = 0
    /\ ~PairSucceeded /\ ~Paired

WellFormedPkgLine(line) ==
    /\ line.pfx /\ Len(line.fields) >= 2
    /\ Last(line.fields) # "" /\ line.fields[1] # ""
ExpectedRecord(line) ==
    [package |-> Last(line.fields), path |-> JoinEq(Front(line.fields))]
\* get_installed_apps(system_apps=False) leaves out the packages under /system/
NotFilteredOut(line) == pk_system \/ ~HasSub(line.fields[1], "/system/")
\* the records of the well-formed lines, of all of them or of those not filtered out
RECURSIVE ExpectedRecords(_, _)
ExpectedRecords(lines, all) ==
    IF lines = <<>> THEN <<>>
    ELSE IF WellFormedPkgLine(Head(lines)) /\ (all \/ NotFilteredOut(Head(lines)))
    THEN <<ExpectedRecord(Head(lines))>> \o ExpectedRecords(Tail(lines), all)
    ELSE ExpectedRecords(Tail(lines), all)

\* C12: the three parsers turn every well-formed line into the record of its
\* path and package, in order, and skip the other lines
C12_ParsersAgreeOnEveryLine ==
    /\ PathAndPackage(pk_adb) = ExpectedRecords(pk_lines, FALSE)
    /\ pk_app = ExpectedRecords(pk_lines, TRUE)
    /\ pk_pkg = ExpectedRecords(pk_lines, TRUE)

\* the numbers of the `TOTAL PSS:` lines of the dump
TotalPssOf(lines) == {lines[i].n : i \in {j \in 1..Len(lines) : lines[j].kind = "pss"}}

\* C13: a dump with a `TOTAL PSS: <n>` line makes every parser report n,
\* wherever the line stands: total_pss = n, total = n * 1024, total_mb = n / 1024
C13_TotalPssReported ==
    TotalPssOf(mem_lines) # {} =>
        /\ mem_head.total_pss \in TotalPssOf(mem_lines)
        /\ mem_parent.total \in {n * 1024 : n \in TotalPssOf(mem_lines)}
        /\ mem_app.has_total /\ mem_app.total_kb \in TotalPssOf(mem_lines)

\* no candidate location holds an adb executable
NothingResolves(m) == ~m.on_path /\ ~m.bundled /\ m.home # "adb" /\ m.sdk # "adb"

\* the path names an adb executable of the machine
PathExists(m, path) ==
    CASE path = DefaultPath -> m.on_path
      [] path = WherePath -> m.on_path
      [] path = BundledPath -> m.bundled
      [] path = HomePath -> m.home = "adb"
      [] path = SdkRootPath -> m.sdk = "adb"
      [] OTHER -> FALSE

\* C14: when nothing resolves, _verify_adb_path raises FileNotFoundError and
\* find_adb returns None; no other exception is raised, and an object that was
\* constructed holds None or a path that exists
C14_NotFoundIsSignalled ==
    /\ rs_raised \in {"", "FileNotFoundError"}
    /\ (fresh = "_verify_adb_path" /\ NothingResolves(rs_env))
          => rs_raised = "FileNotFoundError"
    /\ (fresh = "find_adb" /\ NothingResolves(rs_env))
          => rs_raised = "" /\ rs_path = NoPath
    /\ (fresh \in {"find_adb", "_verify_adb_path"} /\ rs_raised = "")
          => rs_path = NoPath \/ PathExists(rs_env, rs_path)

\* nothing resolved and _verify_adb_path has raised
C14_Witness ==
    fresh = "_verify_adb_path" /\ NothingResolves(rs_env)
        /\ rs_env.home = "no adb" /\ rs_raised = "FileNotFoundError"

\* C15: no data operation of AppUtils lets an exception reach its caller
C15_DataOperationsNeverRaise == ~du_ret.raised

\* the last get_installed_apps call returned the list object that was in the
\* cache before it: it was served from the cache, or it ran commands and did
\* not return the list object it made
OldListReturned(cache) ==
    ia_ret = cache /\ (ia_spawned = 0 \/ ia_ret.oid # next_oid - 1)

\* C16: a get_installed_apps call returns the list that was cached before it
\* only while the cache is younger than the window (AppUtils 30 s, ADBUtils
\* 5 s); later it returns the list of a new query or an empty list
C16_NoOldListAfterWindow ==
    /\ (fresh = "AppUtils.get_installed_apps" /\ OldListReturned(_app_cache))
          => now - _last_app_refresh < AppCacheWindow
    /\ (fresh = "ADBUtils.get_installed_apps" /\ OldListReturned(app_cache))
          => now - last_app_refresh < cache_timeout

\* C17: every adb subprocess ADBUtils waits for is bounded by a finite
\* timeout, so a process that never exits cannot keep the method waiting
\* beyond it
C17_EveryWaitHasTimeout ==
    sp_state = "waiting" => (sp_timeout # NoTimeout /\ sp_elapsed <= sp_timeout)

\* C18: once closeEvent has run no periodic timer of the window or of its
\* tabs is active, and none fires
C18_TimersStoppedOnClose ==
    tm_closed => (tm_active = {} /\ tm_late = {})

\* C19: a get_device_state call made less than cache_timeout after a call
\* that computed a result from a listing returns that result and does not run
\* `adb devices`; a check_adb_status call made less than CheckInterval after
\* the previous verification returns the stored adb_ready and does not verify
C19_StatusServedFromCache ==
    /\ (fresh = "get_device_state" /\ ds_inwin) => (ds_ret = ds_expect /\ ~ds_miss)
    /\ (fresh = "check_adb_status" /\ ck_inwin) => (ck_ret = ck_expect /\ ~ck_verified)

\* both calls were served from their caches after time had passed, while a
\* new listing would have given another answer
C19_Witness ==
    /\ fresh = "check_adb_status" /\ ck_inwin /\ ~ck_verified /\ now > ck_prior.time
    /\ ck_ret # VerifyDeviceResult(AdbDevicesShort, current_device).ret
    /\ ds_inwin /\ ~ds_miss /\ now > ds_prior.time
    /\ ds_ret # ClassifyDevices(GetConnectedDevices(AdbDevicesLong))

\* C20: _verify_device returns True, and sets current_device, only if the
\* listing holds at least one device whose state is exactly `device`
C20_ReadyOnlyWithDeviceState ==
    vd_fresh =>
        /\ vd_ret => (adb_up /\ ReadyOf(devs) # <<>>)
        /\ current_device # vd_prev => (adb_up /\ ReadyOf(devs) # <<>>)

\* the detail commands of line i failed, or their output held nothing
LookupFailed(i) == ~(en_outs[i].kind = "exit" /\ en_outs[i].rc = 0
                     /\ DetailFound(en_outs[i].stdout))
\* the values a record holds for what could not be looked up
Placeholders == {"None", "Unknown", "0 B"}
PackagesOf(recs) == [i \in 1..Len(recs) |-> recs[i].package]

\* C21: a failing detail command never ends the enumeration: every parser
\* yields the records it yields when all lookups succeed, and the record of a
\* package whose lookup failed holds placeholders in every detail field and
\* the package, or a name derived from it, as its name
C21_FailedLookupKeepsEnumerating ==
    /\ PackagesOf(en_adb) = PackagesOf(AdbParsePackages(en_lines, en_system))
    /\ PackagesOf(en_app) = PackagesOf(AppParsePackages(en_lines))
    /\ PackagesOf(en_pkg) = PackagesOf(GetInstalledPackages(en_lines))
    /\ \A k \in 1..Len(en_adb) :
          LookupFailed(en_adb[k].at) =>
             /\ {en_adb[k].sdk, en_adb[k].cpu_abi, en_adb[k].install_time}
                   \subseteq Placeholders
             /\ en_adb[k].name = en_adb[k].package
    /\ \A k \in 1..Len(en_app) :
          LookupFailed(en_app[k].at) =>
             en_app[k].name = TitleOfLastPart(en_app[k].package)
    /\ \A k \in 1..Len(en_pkg) :
          LookupFailed(en_pkg[k].at) =>
             {en_pkg[k].version, en_pkg[k].size, en_pkg[k].status}
                \subseteq Placeholders

\* C22: a get_app_analytics call made with exactly one ready device attached
\* (and seen by the device check) returns a snapshot, and the snapshot holds
\* the keys of every command that succeeded with output that parses
C22_SnapshotHoldsEveryMetric ==
    (fresh = "get_app_analytics" /\ an_ready) =>
       /\ an_ret.found
       /\ \A i \in 1..Len(AnalyticsQueries) :
             (an_q[i].rc = 0 /\ DetailFound(an_q[i].stdout)) =>
                MetricsOf(AnalyticsQueries[i]) \subseteq an_ret.metrics

\* C23: during a LAN scan no more than ThreadCap probe threads are alive at
\* the same time, however many host addresses the subnets have
C23_ProbeThreadsCapped == sc_alive <= ThreadCap
\* the ceiling is reached while hosts are still waiting for their thread
C23_Witness ==
    sc_state = "scanning" /\ sc_alive = ThreadCap /\ sc_spawned < sc_hosts

\* C24: a completion handler of WirelessHandlerWidget reads no result stored
\* by another worker than its own, and reports success only if the function
\* of its own worker returned a truthy value
C24_HandlerUsesOwnResult ==
    hw_report.w # 0 =>
       /\ hw_report.used \in {0, hw_report.w}
       /\ hw_report.success =>
             /\ hw_workers[hw_report.w].returned
             /\ Truthy(hw_workers[hw_report.w].value)

\* the run of worker w has emitted its last signal
RunIsOver(w) == hw_workers[w].at = Len(RunSignals(hw_workers[w].returned))

\* C25: once every started worker has finished, _start_worker has returned
\* and every queued signal is delivered, active_threads is empty
C25_ActiveThreadsDrained ==
    (hw_ui = 0 /\ hw_queue = <<>> /\ \A w \in 1..Len(hw_workers) : RunIsOver(w))
       => hw_active = {}

\* C26: a run of Worker.run that is over has emitted result (the function
\* returned) or error (it raised), one of them, and then finished, once
C26_OneOutcomeThenFinished ==
    \A w \in 1..Len(hw_workers) :
       LET wk == hw_workers[w] IN
       /\ RunIsOver(w) =>
             wk.signals = <<IF wk.returned THEN "result" ELSE "error", "finished">>
       /\ ~RunIsOver(w) => \A i \in 1..Len(wk.signals) : wk.signals[i] # "finished"
\* runs of both kinds are over
C26_Witness ==
    \E v, w \in 1..Len(hw_workers) :
       /\ RunIsOver(v) /\ hw_workers[v].returned
       /\ RunIsOver(w) /\ ~hw_workers[w].returned

\* a device-refresh worker whose function has not finished
RefreshInFlight(w) == hw_workers[w].op = "refresh" /\ ~RunIsOver(w)

\* C27: while a device-refresh worker is in flight the Refresh button is
\* disabled, and no second device refresh is in flight
C27_OneRefreshAtATime ==
    LET inFlight == {w \in 1..Len(hw_workers) : RefreshInFlight(w)} IN
    /\ inFlight # {} => "refreshButton" \notin hw_enabled
    /\ Cardinality(inFlight) <= 1

\* C28: a call ADBUtils.get_installed_apps(system_apps=False) returns no
\* record whose 'system' flag is true, from the cache or from the device
C28_NoSystemRecordUnlessAsked ==
    (fresh = "ADBUtils.get_installed_apps" /\ ~ia_system) =>
       \A i \in 1..Len(ia_ret.items) : ~ia_ret.items[i].system

\* what get_device_state computes from the listing of the moment, which it
\* does whenever its cache does not answer
StateOnMiss == ClassifyDevices(GetConnectedDevices(AdbDevicesLong)).ok

\* C29: on one device list the checks agree: check_adb_status and
\* EnhancedAppUtils._verify_device return True exactly when get_device_state,
\* computing its result from the listing, returns success
C29_ReadinessChecksAgree ==
    /\ fresh = "ADBUtils.check_adb_status" => (ag_status <=> StateOnMiss)
    /\ fresh = "EnhancedAppUtils._verify_device" => (ag_verify <=> StateOnMiss)

\* C30: the queue thread never blocks forever, whatever logger method a
\* listener calls: every entry that log_operation queued before shutdown is
\* eventually in entries
C30_QueuedEntriesAppended ==
    \A e \in 1..MaxEntries : (e \in lg_before) ~> InList(lg_entries, e)

\* the subprocess of the call could not be started because adb was not located
NotLocated == ~r_path \/ r_outs[1].kind = "oserror"
ExpectedFailure == r_path /\ (r_outs[1].kind = "timeout" \/ (r_outs[1].kind = "exit" /\ r_outs[1].rc # 0))

\* C5 (as claimed): no runner raises for an expected failure (non-zero exit,
\* timeout); each returns a failure result, and an exception reaches the
\* caller only when the adb executable cannot be located.
C5_RunnersNeverRaise ==
    r_runner # "none" =>
        /\ ExpectedFailure => (~r_ret.raised /\ ~r_ret.ok)
        /\ r_ret.raised => NotLocated

\* C5 (amended): _run_adb and _run_command never raise, whatever the
\* subprocess does, and return a failure result unless it exits with status
\* 0; run_adb_command returns only when the subprocess exits with status 0
\* and raises otherwise: CalledProcessError on a non-zero exit,
\* TimeoutExpired on a timeout, FileNotFoundError without an adb path.
C5_OnlyRunAdbCommandRaises ==
    /\ r_runner \in {"_run_adb", "_run_command"} =>
          /\ ~r_ret.raised
          /\ r_ret.ok <=> (r_path /\ r_outs[1].kind = "exit" /\ r_outs[1].rc = 0)
    /\ r_runner = "run_adb_command" =>
          /\ r_ret.raised <=> ~(r_path /\ r_outs[1].kind = "exit" /\ r_outs[1].rc = 0)
          /\ (r_path /\ r_outs[1].kind = "exit" /\ r_outs[1].rc # 0)
                => r_ret.exc = "CalledProcessError"
          /\ (r_path /\ r_outs[1].kind = "timeout") => r_ret.exc = "TimeoutExpired"
          /\ ~r_path => r_ret.exc = "FileNotFoundError"

C5_Witness ==
    /\ r_runner = "run_adb_command"
    /\ ExpectedFailure
    /\ r_ret.raised
    /\ r_ret.exc = "CalledProcessError"

\* C8: a failing invocation of _run_adb (non-zero exit, timeout, exception)
\* is run again, up to 3 attempts in total, before the failure is returned.
C8_RetriesFailingCommand ==
    (r_runner = "_run_adb" /\ ~r_ret.ok) => r_ret.attempts = RetryTries

====
